---- MODULE Spec2Model ----
(***************************************************************************)
(* Model of the reconciliation layer of terraform-provider-                *)
(* pingoneprovisioning: the keyed-collection differ, the three reconcilers *)
(* (rule mappings, team members, team organizations) and the retry loops   *)
(* of the PingOne and GitHub HTTP clients.                                 *)
(*                                                                         *)
(* Strings are sequences of byte codes, so that trimming, lower-casing and *)
(* byte-wise ordering are computed as the Go code computes them.           *)
(* Durations and clock readings are whole seconds.                         *)
(***************************************************************************)
EXTENDS Integers, Sequences, FiniteSets, TLC

(***************************************************************************)
(* Bounds of the model                                                     *)
(***************************************************************************)
MaxInputLen == 2

MaxDesired == 2

MaxOps == 2

MaxAttempts == 8

JitterSteps == 2

(***************************************************************************)
(* Strings                                                                 *)
(***************************************************************************)
Min(a, b) == IF a < b THEN a ELSE b

Range(s) == {s[i] : i \in 1..Len(s)}

SeqsUpTo(S, n) == UNION {[1..k -> S] : k \in 0..n}

IsSpace(c) == c = 32

RECURSIVE TrimLeft(_)
TrimLeft(s) == IF s # <<>> /\ IsSpace(Head(s)) THEN TrimLeft(Tail(s)) ELSE s

RECURSIVE TrimRight(_)
TrimRight(s) ==
  IF s # <<>> /\ IsSpace(s[Len(s)]) THEN TrimRight(SubSeq(s, 1, Len(s) - 1)) ELSE s

TrimSpace(s) == TrimRight(TrimLeft(s))

ToLowerByte(c) == IF c >= 65 /\ c <= 90 THEN c + 32 ELSE c

ToLower(s) == [i \in 1..Len(s) |-> ToLowerByte(s[i])]

RECURSIVE StrLess(_, _)
StrLess(a, b) ==
  IF b = <<>> THEN FALSE
  ELSE IF a = <<>> THEN TRUE
  ELSE IF Head(a) # Head(b) THEN Head(a) < Head(b)
  ELSE StrLess(Tail(a), Tail(b))

RECURSIVE InsertSorted(_, _)
InsertSorted(x, s) ==
  IF s = <<>> THEN <<x>>
  ELSE IF StrLess(x, Head(s)) THEN <<x>> \o s
  ELSE <<Head(s)>> \o InsertSorted(x, Tail(s))

RECURSIVE SortStrings(_)
SortStrings(s) == IF s = <<>> THEN <<>> ELSE InsertSorted(Head(s), SortStrings(Tail(s)))

\* The strings the model feeds to the team differ: "", " ", "a", "A", " a", "B".
RawStrings == { <<>>, <<32>>, <<97>>, <<65>>, <<32, 97>>, <<66>> }

(***************************************************************************)
(* normalizeStrings and diffCaseInsensitive (team members, organizations)  *)
(***************************************************************************)
RECURSIVE normalizeLoop(_, _, _)
normalizeLoop(values, seen, out) ==
  IF values = <<>> THEN out
  ELSE LET val == TrimSpace(Head(values))
           key == ToLower(val)
       IN IF val = <<>> \/ key \in seen
          THEN normalizeLoop(Tail(values), seen, out)
          ELSE normalizeLoop(Tail(values), seen \cup {key}, Append(out, val))

normalizeStrings(values) == SortStrings(normalizeLoop(values, {}, <<>>))

\* The map built by one of the two loops of diffCaseInsensitive: the key is
\* the lower-cased trimmed value, a key already present is not overwritten.
RECURSIVE caseMapLoop_caseSensitive(_, _)
caseMapLoop_caseSensitive(values, m) ==
  IF values = <<>> THEN m
  ELSE LET val == TrimSpace(Head(values))
           key == val
       IN IF val = <<>> \/ key \in DOMAIN m
          THEN caseMapLoop_caseSensitive(Tail(values), m)
          ELSE caseMapLoop_caseSensitive(Tail(values), [k \in DOMAIN m \cup {key} |-> IF k = key THEN val ELSE m[k]])

RECURSIVE caseMapLoop(_, _)
caseMapLoop(values, m) ==
  IF values = <<>> THEN m
  ELSE LET val == TrimSpace(Head(values))
           key == ToLower(val)
       IN IF val = <<>> \/ key \in DOMAIN m
          THEN caseMapLoop(Tail(values), m)
          ELSE caseMapLoop(Tail(values), [k \in DOMAIN m \cup {key} |-> IF k = key THEN val ELSE m[k]])

caseMap(values) == caseMapLoop(values, [k \in {} |-> <<>>])

\* An enumeration of a set of strings in some order (Go map iteration order
\* is unspecified; the result is sorted afterwards).
RECURSIVE SetToSeq(_)
SetToSeq(S) == IF S = {} THEN <<>> ELSE LET x == CHOOSE y \in S : TRUE IN <<x>> \o SetToSeq(S \ {x})

missingFrom(m, other) == {m[k] : k \in {j \in DOMAIN m : j \notin DOMAIN other}}

diffCaseInsensitive_addsPresent(desired, existing) ==
  LET desiredMap  == caseMap(desired)
      existingMap == caseMap(existing)
  IN [toAdd    |-> SortStrings(SetToSeq({desiredMap[k] : k \in DOMAIN desiredMap})),
      toRemove |-> SortStrings(SetToSeq(missingFrom(existingMap, desiredMap)))]

diffCaseInsensitive(desired, existing) ==
  LET desiredMap  == caseMap(desired)
      existingMap == caseMap(existing)
  IN [toAdd    |-> SortStrings(SetToSeq(missingFrom(desiredMap, existingMap))),
      toRemove |-> SortStrings(SetToSeq(missingFrom(existingMap, desiredMap)))]

(***************************************************************************)
(* Mapping keys and the mapping differ of ensurePropagationRuleMappings    *)
(***************************************************************************)
\* "expr:", "src:", "src_expr:" and "->" as byte codes.
PrefixExpr == <<101, 120, 112, 114, 58>>

PrefixSrc == <<115, 114, 99, 58>>

PrefixSrcExpr == <<115, 114, 99, 95, 101, 120, 112, 114, 58>>

Arrow == <<45, 62>>

mappingKey(source0, target0, expression0) ==
  LET source     == TrimSpace(source0)
      target     == TrimSpace(target0)
      expression == TrimSpace(expression0)
  IN IF target = <<>> THEN <<>>
     ELSE IF expression # <<>> /\ source = <<>> THEN PrefixExpr \o target \o Arrow \o expression
     ELSE IF source # <<>> /\ expression = <<>> THEN PrefixSrc \o source \o Arrow \o target
     ELSE IF source # <<>> /\ expression # <<>>
          THEN PrefixSrcExpr \o source \o Arrow \o target \o Arrow \o expression
     ELSE <<>>

mappingKeyFromAPI(m) == mappingKey(m.src, m.tgt, m.expr)

\* The two maps of ensurePropagationRuleMappings: key -> item, an empty key
\* is skipped, a later item with the same key replaces an earlier one.
RECURSIVE keyedLoop_firstWins(_, _)
keyedLoop_firstWins(items, m) ==
  IF items = <<>> THEN m
  ELSE LET key == mappingKey(Head(items).src, Head(items).tgt, Head(items).expr)
       IN IF key = <<>> \/ key \in DOMAIN m THEN keyedLoop_firstWins(Tail(items), m)
          ELSE keyedLoop_firstWins(Tail(items),
                                   [k \in DOMAIN m \cup {key} |-> IF k = key THEN Head(items) ELSE m[k]])

RECURSIVE keyedLoop(_, _)
keyedLoop(items, m) ==
  IF items = <<>> THEN m
  ELSE LET key == mappingKey(Head(items).src, Head(items).tgt, Head(items).expr)
       IN IF key = <<>> THEN keyedLoop(Tail(items), m)
          ELSE keyedLoop(Tail(items),
                         [k \in DOMAIN m \cup {key} |-> IF k = key THEN Head(items) ELSE m[k]])

keyedMap(items) == keyedLoop(items, [k \in {} |-> <<>>])

\* The keys the delete loop visits without skipping (not desired, id set)
\* and the keys the create loop visits without skipping (not existing).
mappingDelta_keepsAll(desired, existing) ==
  LET existingByKey == keyedMap(existing)
      desiredKeys   == keyedMap(desired)
  IN [toRemove |-> {},
      toAdd    |-> {k \in DOMAIN desiredKeys : k \notin DOMAIN existingByKey},
      existingByKey |-> existingByKey,
      desiredKeys   |-> desiredKeys]

mappingDelta(desired, existing) ==
  LET existingByKey == keyedMap(existing)
      desiredKeys   == keyedMap(desired)
  IN [toRemove |-> {k \in DOMAIN existingByKey : k \notin DOMAIN desiredKeys /\ existingByKey[k].id # 0},
      toAdd    |-> {k \in DOMAIN desiredKeys : k \notin DOMAIN existingByKey},
      existingByKey |-> existingByKey,
      desiredKeys   |-> desiredKeys]

\* Mappings of the model: a->t, " a"->t (same key once trimmed), the
\* expression e->t, b->t, and two that validation rejects: source and
\* expression both set, and no target (which has no key).
Str_a == <<97>>

Str_sp_a == <<32, 97>>

Str_b == <<98>>

Str_t == <<116>>

Str_e == <<101>>

Mapping(s, t, e) == [src |-> s, tgt |-> t, expr |-> e]

ValidMappings ==
  { Mapping(Str_a, Str_t, <<>>), Mapping(Str_sp_a, Str_t, <<>>),
    Mapping(<<>>, Str_t, Str_e), Mapping(Str_b, Str_t, <<>>) }

AllMappings ==
  ValidMappings \cup
  { Mapping(Str_a, Str_t, Str_e), Mapping(<<>>, <<>>, Str_e) }

\* A list answer of the mappings endpoint: every item carries the id the
\* service assigned (here its position).
WithIds(ms) == [i \in 1..Len(ms) |-> [id |-> i, src |-> ms[i].src, tgt |-> ms[i].tgt, expr |-> ms[i].expr]]

(***************************************************************************)
(* State                                                                   *)
(***************************************************************************)
\* The differ applied to inputs of any shape.
VARIABLES dkind, ddesired, dexisting, dresult

diffVars == <<dkind, ddesired, dexisting, dresult>>

\* A reconciler at work: the desired collection, the remote collection, the
\* clients, the position in the function and the calls issued so far.
VARIABLES kind, desired, remote, nextId, homeHost, apiClient, requestClient, pc,
          toAdd, toRemove, existingByKey, desiredKeys, cur, cands, candIdx,
          lastCall, addIssued, removeIssued, err, ops

recVars == <<kind, desired, remote, nextId, homeHost, apiClient, requestClient, pc,
             toAdd, toRemove, existingByKey, desiredKeys, cur, cands, candIdx,
             lastCall, addIssued, removeIssued, err, ops>>

\* The three retry loops, fed the same answers, clock readings and jitter.
VARIABLES loops, clock, ctxDone, cancelledAsleep

retryVars == <<loops, clock, ctxDone, cancelledAsleep>>

\* A region function applied to an input of any shape.
VARIABLES region

\* A create or update operation on a propagation rule, as the sequence of its
\* remote calls.
VARIABLES operation

\* The Create-ID resolver at work.
VARIABLES resolver

\* A helper function of the resources applied to an input of any shape.
VARIABLES helper

vars == <<diffVars, recVars, retryVars, region, operation, resolver, helper>>

\* What a step of one part of the model leaves alone.
otherThanDiff == <<recVars, retryVars, region, operation, resolver, helper>>

otherThanRec == <<diffVars, retryVars, region, operation, resolver, helper>>

otherThanRetry == <<diffVars, recVars, region, operation, resolver, helper>>

otherThanRegion == <<diffVars, recVars, retryVars, operation, resolver, helper>>

otherThanOperation == <<diffVars, recVars, retryVars, region, resolver, helper>>

otherThanResolver == <<diffVars, recVars, retryVars, region, operation, helper>>

otherThanHelper == <<diffVars, recVars, retryVars, region, operation, resolver>>

(***************************************************************************)
(* The differ applied to arbitrary inputs                                  *)
(***************************************************************************)
NoResult == [toAdd |-> <<>>, toRemove |-> <<>>, desiredMap |-> <<>>, existingMap |-> <<>>, done |-> FALSE]

\* The parts of the state a specification does not use stay as they are here.
DiffIdle == dkind = "none" /\ ddesired = <<>> /\ dexisting = <<>> /\ dresult = NoResult

RecIdle ==
  /\ kind = "none" /\ desired = <<>> /\ remote = {} /\ nextId = 1
  /\ homeHost = <<>> /\ apiClient = <<>> /\ requestClient = <<>>
  /\ pc = "idle" /\ toAdd = {} /\ toRemove = {}
  /\ existingByKey = <<>> /\ desiredKeys = <<>>
  /\ cur = <<>> /\ cands = <<>> /\ candIdx = 0
  /\ lastCall = <<>> /\ addIssued = FALSE /\ removeIssued = FALSE
  /\ err = FALSE /\ ops = 0

RetryIdle == loops = <<>> /\ clock = 0 /\ ctxDone = FALSE /\ cancelledAsleep = FALSE

RegionIdle == region = <<>>

OperationIdle == operation = <<>>

ResolverIdle == resolver = <<>>

HelperIdle == helper = <<>>

DiffInit ==
  /\ dkind \in {"strings", "mappings"}
  /\ \/ /\ dkind = "strings"
        /\ ddesired \in SeqsUpTo(RawStrings, MaxInputLen)
        /\ dexisting \in SeqsUpTo(RawStrings, MaxInputLen)
     \/ /\ dkind = "mappings"
        /\ ddesired \in SeqsUpTo(AllMappings, MaxInputLen)
        /\ dexisting \in {WithIds(ms) : ms \in SeqsUpTo(AllMappings, MaxInputLen)}
  /\ dresult = NoResult
  /\ RecIdle
  /\ RetryIdle
  /\ RegionIdle /\ OperationIdle /\ ResolverIdle /\ HelperIdle

DiffStrings ==
  /\ dkind = "strings"
  /\ ~dresult.done
  /\ LET d == diffCaseInsensitive(ddesired, dexisting)
     IN dresult' = [toAdd |-> d.toAdd, toRemove |-> d.toRemove,
                    desiredMap |-> caseMap(ddesired), existingMap |-> caseMap(dexisting),
                    done |-> TRUE]
  /\ UNCHANGED <<dkind, ddesired, dexisting>>
  /\ UNCHANGED otherThanDiff

DiffMappings ==
  /\ dkind = "mappings"
  /\ ~dresult.done
  /\ LET d == mappingDelta(ddesired, dexisting)
     IN dresult' = [toAdd |-> d.toAdd, toRemove |-> d.toRemove,
                    desiredMap |-> d.desiredKeys, existingMap |-> d.existingByKey,
                    done |-> TRUE]
  /\ UNCHANGED <<dkind, ddesired, dexisting>>
  /\ UNCHANGED otherThanDiff

DiffNext == DiffStrings \/ DiffMappings

SpecDiff == DiffInit /\ [][DiffNext]_diffVars

\* The keys of each side, as the differ computes them.
StringKeys(values) == {ToLower(TrimSpace(values[i])) : i \in {j \in 1..Len(values) : TrimSpace(values[j]) # <<>>}}

MappingKeys(items) == {mappingKeyFromAPI(items[i]) : i \in 1..Len(items)} \ {<<>>}

DesiredKeySet == IF dkind = "strings" THEN StringKeys(ddesired) ELSE MappingKeys(ddesired)

ExistingKeySet == IF dkind = "strings" THEN StringKeys(dexisting) ELSE MappingKeys(dexisting)

ResultAddKeys == IF dkind = "strings" THEN StringKeys(dresult.toAdd) ELSE dresult.toAdd

ResultRemoveKeys == IF dkind = "strings" THEN StringKeys(dresult.toRemove) ELSE dresult.toRemove

\* C3: for all desired and existing collections, toAdd is exactly the desired
\* keys absent from existing, toRemove is exactly the existing keys absent
\* from desired, and no key is in both.
C3_DifferCorrect ==
  dresult.done =>
    /\ ResultAddKeys = DesiredKeySet \ ExistingKeySet
    /\ ResultRemoveKeys = ExistingKeySet \ DesiredKeySet
    /\ ResultAddKeys \cap ResultRemoveKeys = {}
    /\ dkind = "strings" => /\ Len(dresult.toAdd) = Cardinality(ResultAddKeys)
                            /\ Len(dresult.toRemove) = Cardinality(ResultRemoveKeys)

C3_Witness ==
  /\ dresult.done
  /\ ResultAddKeys # {}
  /\ ResultRemoveKeys # {}
  /\ DesiredKeySet \cap ExistingKeySet # {}

\* The key of an identifier of a team sync, and of a side's i-th item.
StringKey(v) == ToLower(TrimSpace(v))

ItemKey(items, i) ==
  IF dkind = "strings" THEN StringKey(items[i]) ELSE mappingKeyFromAPI(items[i])

\* The positions of a side that hold a usable key, and the value the differ
\* holds for an item (the trimmed identifier, or the mapping as it is).
Keyed(items) == {i \in 1..Len(items) : ItemKey(items, i) # <<>>}

ItemValue(items, i) == IF dkind = "strings" THEN TrimSpace(items[i]) ELSE items[i]

FirstWith(items, k) == CHOOSE i \in Keyed(items) :
  ItemKey(items, i) = k /\ \A j \in Keyed(items) : ItemKey(items, j) = k => i <= j

LastWith(items, k) == CHOOSE i \in Keyed(items) :
  ItemKey(items, i) = k /\ \A j \in Keyed(items) : ItemKey(items, j) = k => j <= i

\* C21: identifiers that differ only in letter case or surrounding white
\* space are one item: no two entries of toAdd have the same key, no entry
\* of toAdd has the key of an existing identifier, and normalizeStrings
\* keeps one identifier per key.
C21_OneItemPerIdentifier ==
  (dkind = "strings" /\ dresult.done) =>
    /\ \A i, j \in 1..Len(dresult.toAdd) :
         StringKey(dresult.toAdd[i]) = StringKey(dresult.toAdd[j]) => i = j
    /\ \A i \in 1..Len(dresult.toAdd) : StringKey(dresult.toAdd[i]) \notin StringKeys(dexisting)
    /\ LET n == normalizeStrings(ddesired)
       IN /\ \A i, j \in 1..Len(n) : StringKey(n[i]) = StringKey(n[j]) => i = j
          /\ {StringKey(n[i]) : i \in 1..Len(n)} = StringKeys(ddesired)

\* Two desired identifiers that differ in case only, one added; and a
\* desired identifier that exists under another casing is not added.
C21_Witness ==
  /\ dkind = "strings" /\ dresult.done
  /\ Len(ddesired) = 2
  /\ ddesired[1] # ddesired[2]
  /\ StringKey(ddesired[1]) = StringKey(ddesired[2])
  /\ StringKey(ddesired[1]) # <<>>
  /\ dexisting = <<>>
  /\ Len(dresult.toAdd) = 1

\* C22 as amended: of several items of one side with the same key, the team
\* differ keeps the first in input order (trimmed) and the mapping
\* reconciler keeps the last.
C22_DuplicateKeys ==
  dresult.done =>
    /\ DOMAIN dresult.desiredMap = DesiredKeySet
    /\ DOMAIN dresult.existingMap = ExistingKeySet
    /\ \A k \in DesiredKeySet :
         dresult.desiredMap[k] =
           ItemValue(ddesired, IF dkind = "strings" THEN FirstWith(ddesired, k) ELSE LastWith(ddesired, k))
    /\ \A k \in ExistingKeySet :
         dresult.existingMap[k] =
           ItemValue(dexisting, IF dkind = "strings" THEN FirstWith(dexisting, k) ELSE LastWith(dexisting, k))

\* C22 as stated: either differ keeps the last item of a key.
C22_LastWriteWins ==
  dresult.done =>
    /\ \A k \in DesiredKeySet : dresult.desiredMap[k] = ItemValue(ddesired, LastWith(ddesired, k))
    /\ \A k \in ExistingKeySet : dresult.existingMap[k] = ItemValue(dexisting, LastWith(dexisting, k))

\* Two existing mappings with one key: the one listed last is kept.
C22_Witness ==
  /\ dkind = "mappings" /\ dresult.done
  /\ Len(dexisting) = 2
  /\ dexisting[1].src # dexisting[2].src
  /\ mappingKeyFromAPI(dexisting[1]) = mappingKeyFromAPI(dexisting[2])
  /\ mappingKeyFromAPI(dexisting[1]) # <<>>
  /\ dresult.existingMap[mappingKeyFromAPI(dexisting[1])].id = 2

(***************************************************************************)
(* Hosts and the remote service                                            *)
(***************************************************************************)
HostCom == <<"api", "pingone", "com">>

HostEu == <<"api", "pingone", "eu">>

HostCa == <<"api", "pingone", "ca">>

HostAsia == <<"api", "pingone", "asia">>

HostComAu == <<"api", "pingone", "com", "au">>

\* strings.HasSuffix(host, "." + suffix), hostnames being sequences of labels.
HasSuffix(host, suffix) ==
  /\ Len(host) > Len(suffix)
  /\ SubSeq(host, Len(host) - Len(suffix) + 1, Len(host)) = suffix

RECURSIVE dedupeHosts(_, _, _, _)
dedupeHosts(candidates, current, seen, out) ==
  IF candidates = <<>> THEN out
  ELSE LET host == Head(candidates)
       IN IF host = <<>> \/ host = current \/ host \in seen
          THEN dedupeHosts(Tail(candidates), current, seen, out)
          ELSE dedupeHosts(Tail(candidates), current, seen \cup {host}, Append(out, host))

pingOneFallbackBaseHostnames_comStartsWithCa(current) ==
  LET candidates ==
        IF HasSuffix(current, <<"com", "au">>) THEN <<HostAsia, HostCom, HostEu, HostCa>>
        ELSE IF HasSuffix(current, <<"asia">>) THEN <<HostComAu, HostCom, HostEu, HostCa>>
        ELSE IF HasSuffix(current, <<"eu">>) THEN <<HostCom, HostCa, HostAsia, HostComAu>>
        ELSE IF HasSuffix(current, <<"ca">>) THEN <<HostCom, HostEu, HostAsia, HostComAu>>
        ELSE IF HasSuffix(current, <<"com">>) THEN <<HostCa, HostEu, HostAsia, HostComAu>>
        ELSE <<HostCom, HostEu, HostCa, HostAsia, HostComAu>>
  IN dedupeHosts(candidates, current, {}, <<>>)

pingOneFallbackBaseHostnames(current) ==
  LET candidates ==
        IF HasSuffix(current, <<"com", "au">>) THEN <<HostAsia, HostCom, HostEu, HostCa>>
        ELSE IF HasSuffix(current, <<"asia">>) THEN <<HostComAu, HostCom, HostEu, HostCa>>
        ELSE IF HasSuffix(current, <<"eu">>) THEN <<HostCom, HostCa, HostAsia, HostComAu>>
        ELSE IF HasSuffix(current, <<"ca">>) THEN <<HostCom, HostEu, HostAsia, HostComAu>>
        ELSE IF HasSuffix(current, <<"com">>) THEN <<HostEu, HostCa, HostAsia, HostComAu>>
        ELSE <<HostCom, HostEu, HostCa, HostAsia, HostComAu>>
  IN dedupeHosts(candidates, current, {}, <<>>)

\* An HTTP exchange as the callers see it: no response at all (a transport
\* error), or a status, with or without the malformed-authorization body.
NetError == [net |-> TRUE, status |-> 0, badAuth |-> FALSE]

Status(n) == [net |-> FALSE, status |-> n, badAuth |-> FALSE]

BadAuth403 == [net |-> FALSE, status |-> 403, badAuth |-> TRUE]

\* What the generated SDK's Execute returns for an exchange: an error for a
\* transport error or a status of 300 and above.
sdkResult(r) == [err |-> r.net \/ r.status >= 300, hasResp |-> ~r.net, status |-> r.status, badAuth |-> r.badAuth]

\* deletePropagationMapping: a 404 is returned without error.
deletePropagationMapping_404fails(r) ==
  [err |-> r.net \/ r.status >= 300, hasResp |-> ~r.net, status |-> r.status, badAuth |-> r.badAuth]

deletePropagationMapping(r) ==
  IF r.net THEN [err |-> TRUE, hasResp |-> FALSE, status |-> 0, badAuth |-> FALSE]
  ELSE IF r.status = 404 THEN [err |-> FALSE, hasResp |-> TRUE, status |-> 404, badAuth |-> r.badAuth]
  ELSE [err |-> r.status >= 300, hasResp |-> TRUE, status |-> r.status, badAuth |-> r.badAuth]

isBadAuthorizationHeaderError(res) ==
  IF ~res.err \/ ~res.hasResp THEN FALSE
  ELSE IF res.status # 403 THEN FALSE
  ELSE res.badAuth

shouldTryAlternateHostname(res) ==
  IF ~res.err \/ ~res.hasResp THEN FALSE
  ELSE IF isBadAuthorizationHeaderError(res) THEN TRUE
  ELSE res.status = 404

(***************************************************************************)
(* The reconcilers                                                         *)
(***************************************************************************)
TeamKinds == {"members", "organizations"}

NoCall == [op |-> "none", item |-> <<>>, host |-> <<>>, ok |-> TRUE]

EmptyMap == [k \in {} |-> <<>>]

\* The names a team resource may ask for in the model: "", "a", "A", " a", "B".
DesiredNames == { <<>>, <<97>>, <<65>>, <<32, 97>>, <<66>> }

\* The hosts a client may be configured with in the model.
ConfigHosts == {HostCom, HostEu}

\* The answers of the region that holds the environment, and of any other
\* region. A region that does not hold the environment never serves a call.
HomeAnswers(op) ==
  {Status(200), BadAuth403, Status(500), NetError} \cup (IF op = "add" THEN {Status(404)} ELSE {})

AwayAnswers == {BadAuth403, Status(404), Status(500), NetError}

Answers(host, op) == IF host = homeHost THEN HomeAnswers(op) ELSE AwayAnswers

\* The answers of the GitHub API to a list or bulk call.
GitHubAnswers == {Status(200), Status(500), NetError}

Served(host, r) == host = homeHost /\ ~r.net /\ r.status < 300

TeamKeys(names) == {ToLower(TrimSpace(n)) : n \in names}

RemoteMappingKeys == {mappingKeyFromAPI(m) : m \in remote} \ {<<>>}

Called(op, item, host, ok) ==
  /\ lastCall' = [op |-> op, item |-> item, host |-> host, ok |-> ok]
  /\ addIssued' = (addIssued \/ op = "add")
  /\ removeIssued' = (removeIssued \/ op = "remove")

NotCalled == UNCHANGED <<lastCall, addIssued, removeIssued>>

Return(e) == pc' = "done" /\ err' = e

\* The order of the steps of syncEnterpriseTeamMembers and
\* syncEnterpriseTeamOrganizations: list, bulk add, bulk remove.
teamPhaseAfter_removeFirst(phase) ==
  IF phase = "list" THEN "remove" ELSE IF phase = "remove" THEN "add" ELSE "done"

teamPhaseAfter(phase) ==
  IF phase = "list" THEN "add" ELSE IF phase = "add" THEN "remove" ELSE "done"

\* The order of the steps of ensurePropagationRuleMappings: list, the delete
\* loop, the create loop.
mappingPhaseAfter_createFirst(phase) ==
  IF phase = "list" THEN "create" ELSE IF phase = "create" THEN "delete" ELSE "done"

mappingPhaseAfter(phase) ==
  IF phase = "list" THEN "delete" ELSE IF phase = "delete" THEN "create" ELSE "done"

\* Go on with the next step, or return nil after the last one.
Advance(phase) == IF phase = "done" THEN Return(FALSE) ELSE pc' = phase /\ err' = err

\* if err != nil { return err }; if resp.StatusCode >= 300 { return ... }
githubCallFailed_ignoresStatus(r) == r.net

githubCallFailed(r) == r.net \/ r.status >= 300

\* A call the GitHub API did not carry out.
Refused(r) == r.net \/ r.status >= 300

\* No delta yet: a set of keys for mappings, a list of names for teams.
NoDelta == IF kind = "mappings" THEN {} ELSE <<>>

Init ==
  /\ kind \in {"mappings", "members", "organizations"}
  /\ desired = <<>>
  /\ remote = {}
  /\ nextId = 1
  /\ IF kind = "mappings"
     THEN homeHost \in ConfigHosts /\ apiClient \in ConfigHosts
     ELSE homeHost = <<>> /\ apiClient = <<>>
  /\ requestClient = apiClient
  /\ pc = "idle"
  /\ toAdd = NoDelta /\ toRemove = NoDelta
  /\ existingByKey = EmptyMap /\ desiredKeys = EmptyMap
  /\ cur = <<>> /\ cands = <<>> /\ candIdx = 0
  /\ lastCall = NoCall
  /\ addIssued = FALSE /\ removeIssued = FALSE
  /\ err = FALSE
  /\ ops = 0
  /\ DiffIdle
  /\ RetryIdle
  /\ RegionIdle /\ OperationIdle /\ ResolverIdle /\ HelperIdle

\* A resource operation hands a desired collection to its reconciler. Rule
\* mappings have passed validatePropagationRuleMappings.
StartReconcile ==
  /\ pc \in {"idle", "done"}
  /\ ops < MaxOps
  /\ ops' = ops + 1
  /\ desired' \in IF kind = "mappings" THEN SeqsUpTo(ValidMappings, MaxDesired)
                  ELSE SeqsUpTo(DesiredNames, MaxDesired)
  /\ pc' = "list"
  /\ requestClient' = apiClient
  /\ toAdd' = NoDelta /\ toRemove' = NoDelta
  /\ existingByKey' = EmptyMap /\ desiredKeys' = EmptyMap
  /\ cur' = <<>> /\ cands' = <<>> /\ candIdx' = 0
  /\ lastCall' = NoCall
  /\ addIssued' = FALSE /\ removeIssued' = FALSE
  /\ err' = FALSE
  /\ UNCHANGED <<kind, remote, nextId, homeHost, apiClient>>
  /\ UNCHANGED otherThanRec

(***************************************************************************)
(* syncEnterpriseTeamMembers / syncEnterpriseTeamOrganizations             *)
(***************************************************************************)
\* listEnterpriseTeamMembers / listEnterpriseTeamOrganizations, then
\* normalizeStrings(desired) and diffCaseInsensitive.
TeamList ==
  /\ kind \in TeamKinds
  /\ pc = "list"
  /\ \E r \in GitHubAnswers :
       LET existing == normalizeStrings(SetToSeq(remote))
           d == diffCaseInsensitive(normalizeStrings(desired), existing)
       IN /\ Called("list", <<>>, <<>>, ~Refused(r))
          /\ IF ~githubCallFailed(r)
             THEN /\ toAdd' = d.toAdd
                  /\ toRemove' = d.toRemove
                  /\ pc' = teamPhaseAfter("list")
                  /\ err' = err
             ELSE /\ Return(TRUE)
                  /\ UNCHANGED <<toAdd, toRemove>>
  /\ UNCHANGED <<kind, desired, remote, nextId, homeHost, apiClient, requestClient,
                 existingByKey, desiredKeys, cur, cands, candIdx, ops>>
  /\ UNCHANGED otherThanRec

\* if len(toAdd) > 0 { POST .../add }
TeamAdd ==
  /\ kind \in TeamKinds
  /\ pc = "add"
  /\ \/ /\ Len(toAdd) > 0
        /\ \E r \in GitHubAnswers :
             /\ Called("add", toAdd, <<>>, ~Refused(r))
             /\ remote' = IF Refused(r) THEN remote
                          ELSE remote \cup {n \in Range(toAdd) : ToLower(n) \notin TeamKeys(remote)}
             /\ IF githubCallFailed(r) THEN Return(TRUE) ELSE Advance(teamPhaseAfter("add"))
     \/ /\ Len(toAdd) = 0
        /\ Advance(teamPhaseAfter("add"))
        /\ NotCalled
        /\ remote' = remote
  /\ UNCHANGED <<kind, desired, nextId, homeHost, apiClient, requestClient, toAdd, toRemove,
                 existingByKey, desiredKeys, cur, cands, candIdx, ops>>
  /\ UNCHANGED otherThanRec

\* if len(toRemove) > 0 { POST .../remove }
TeamRemove ==
  /\ kind \in TeamKinds
  /\ pc = "remove"
  /\ \/ /\ Len(toRemove) > 0
        /\ \E r \in GitHubAnswers :
             /\ Called("remove", toRemove, <<>>, ~Refused(r))
             /\ remote' = IF Refused(r) THEN remote
                          ELSE {n \in remote : ToLower(n) \notin TeamKeys(Range(toRemove))}
             /\ IF githubCallFailed(r) THEN Return(TRUE) ELSE Advance(teamPhaseAfter("remove"))
     \/ /\ Len(toRemove) = 0
        /\ Advance(teamPhaseAfter("remove"))
        /\ NotCalled
        /\ remote' = remote
  /\ UNCHANGED <<kind, desired, nextId, homeHost, apiClient, requestClient, toAdd, toRemove,
                 existingByKey, desiredKeys, cur, cands, candIdx, ops>>
  /\ UNCHANGED otherThanRec

(***************************************************************************)
(* ensurePropagationRuleMappings                                           *)
(***************************************************************************)
\* listPropagationRuleMappings, then the two maps.
MappingList ==
  /\ kind = "mappings"
  /\ pc = "list"
  /\ \E r \in Answers(apiClient, "list") :
       LET res == sdkResult(r)
           d == mappingDelta(desired, SetToSeq(remote))
       IN /\ Called("list", <<>>, apiClient, ~res.err)
          /\ IF ~res.err
             THEN /\ toAdd' = d.toAdd
                  /\ toRemove' = d.toRemove
                  /\ existingByKey' = d.existingByKey
                  /\ desiredKeys' = d.desiredKeys
                  /\ pc' = mappingPhaseAfter("list")
                  /\ err' = err
             ELSE /\ Return(TRUE)
                  /\ UNCHANGED <<toAdd, toRemove, existingByKey, desiredKeys>>
  /\ UNCHANGED <<kind, desired, remote, nextId, homeHost, apiClient, requestClient,
                 cur, cands, candIdx, ops>>
  /\ UNCHANGED otherThanRec

\* The service deletes the mapping with this id when it serves the call.
AfterDelete(host, r, id) == IF Served(host, r) THEN {m \in remote : m.id # id} ELSE remote

\* One pass of the delete loop: the first call of
\* deletePropagationMappingWithFallback, on the client's own host.
DeleteMapping ==
  /\ kind = "mappings"
  /\ pc = "delete"
  /\ \/ /\ toRemove = {}
        /\ Advance(mappingPhaseAfter("delete"))
        /\ NotCalled
        /\ UNCHANGED <<remote, toRemove, cur, cands, candIdx>>
     \/ \E key \in toRemove : \E r \in Answers(apiClient, "remove") :
          LET res == deletePropagationMapping(r)
              hosts == pingOneFallbackBaseHostnames(apiClient)
          IN /\ Called("remove", key, apiClient, ~res.err)
             /\ remote' = AfterDelete(apiClient, r, existingByKey[key].id)
             /\ IF ~res.err
                THEN /\ toRemove' = toRemove \ {key}
                     /\ UNCHANGED <<pc, cur, cands, candIdx, err>>
                ELSE IF shouldTryAlternateHostname(res) /\ hosts # <<>>
                THEN /\ pc' = "deleteAlt"
                     /\ cur' = key /\ cands' = hosts /\ candIdx' = 1
                     /\ UNCHANGED <<toRemove, err>>
                ELSE /\ Return(TRUE)
                     /\ UNCHANGED <<toRemove, cur, cands, candIdx>>
  /\ UNCHANGED <<kind, desired, nextId, homeHost, apiClient, requestClient, toAdd,
                 existingByKey, desiredKeys, ops>>
  /\ UNCHANGED otherThanRec

\* The fallback loop of deletePropagationMappingWithFallback: one candidate.
DeleteMappingAlt ==
  /\ kind = "mappings"
  /\ pc = "deleteAlt"
  /\ \E r \in Answers(cands[candIdx], "remove") :
       LET res == deletePropagationMapping(r)
       IN /\ Called("remove", cur, cands[candIdx], ~res.err)
          /\ remote' = AfterDelete(cands[candIdx], r, existingByKey[cur].id)
          /\ IF ~res.err
             THEN /\ toRemove' = toRemove \ {cur}
                  /\ pc' = "delete"
                  /\ cur' = <<>> /\ cands' = <<>> /\ candIdx' = 0
                  /\ err' = err
             ELSE IF shouldTryAlternateHostname(res) /\ candIdx < Len(cands)
             THEN /\ candIdx' = candIdx + 1
                  /\ UNCHANGED <<toRemove, pc, cur, cands, err>>
             ELSE /\ Return(TRUE)
                  /\ UNCHANGED <<toRemove, cur, cands, candIdx>>
  /\ UNCHANGED <<kind, desired, nextId, homeHost, apiClient, requestClient, toAdd,
                 existingByKey, desiredKeys, ops>>
  /\ UNCHANGED otherThanRec

\* The payload of the create call: the trimmed target, and the expression
\* when there is one, the source otherwise.
createPayload(m) ==
  LET source     == TrimSpace(m.src)
      target     == TrimSpace(m.tgt)
      expression == TrimSpace(m.expr)
  IN IF expression # <<>> THEN [src |-> <<>>, tgt |-> target, expr |-> expression]
     ELSE [src |-> source, tgt |-> target, expr |-> <<>>]

\* The service stores the payload under a fresh id when it serves the call.
AfterCreate(host, r, payload) ==
  IF Served(host, r)
  THEN remote \cup {[id |-> nextId, src |-> payload.src, tgt |-> payload.tgt, expr |-> payload.expr]}
  ELSE remote

\* One pass of the create loop: the call on requestClient.
CreateMapping ==
  /\ kind = "mappings"
  /\ pc = "create"
  /\ \/ /\ toAdd = {}
        /\ Advance(mappingPhaseAfter("create"))
        /\ NotCalled
        /\ UNCHANGED <<remote, nextId, requestClient, toAdd, cur, cands, candIdx>>
     \/ \E key \in toAdd : \E r \in Answers(requestClient, "add") :
          LET res == sdkResult(r)
              hosts == pingOneFallbackBaseHostnames(requestClient)
          IN /\ Called("add", key, requestClient, ~res.err)
             /\ remote' = AfterCreate(requestClient, r, createPayload(desiredKeys[key]))
             /\ nextId' = IF Served(requestClient, r) THEN nextId + 1 ELSE nextId
             /\ requestClient' = requestClient
             /\ IF ~res.err
                THEN /\ toAdd' = toAdd \ {key}
                     /\ UNCHANGED <<pc, cur, cands, candIdx, err>>
                ELSE IF shouldTryAlternateHostname(res) /\ hosts # <<>>
                THEN /\ pc' = "createAlt"
                     /\ cur' = key /\ cands' = hosts /\ candIdx' = 1
                     /\ UNCHANGED <<toAdd, err>>
                ELSE /\ Return(TRUE)
                     /\ UNCHANGED <<toAdd, cur, cands, candIdx>>
  /\ UNCHANGED <<kind, desired, homeHost, apiClient, toRemove, existingByKey, desiredKeys, ops>>
  /\ UNCHANGED otherThanRec

\* The fallback loop of the create call: one candidate; the candidate that
\* serves the call becomes requestClient.
CreateMappingAlt ==
  /\ kind = "mappings"
  /\ pc = "createAlt"
  /\ \E r \in Answers(cands[candIdx], "add") :
       LET res == sdkResult(r)
       IN /\ Called("add", cur, cands[candIdx], ~res.err)
          /\ remote' = AfterCreate(cands[candIdx], r, createPayload(desiredKeys[cur]))
          /\ nextId' = IF Served(cands[candIdx], r) THEN nextId + 1 ELSE nextId
          /\ IF ~res.err
             THEN /\ requestClient' = cands[candIdx]
                  /\ toAdd' = toAdd \ {cur}
                  /\ pc' = "create"
                  /\ cur' = <<>> /\ cands' = <<>> /\ candIdx' = 0
                  /\ err' = err
             ELSE IF shouldTryAlternateHostname(res) /\ candIdx < Len(cands)
             THEN /\ candIdx' = candIdx + 1
                  /\ UNCHANGED <<requestClient, toAdd, pc, cur, cands, err>>
             ELSE /\ Return(TRUE)
                  /\ UNCHANGED <<requestClient, toAdd, cur, cands, candIdx>>
  /\ UNCHANGED <<kind, desired, homeHost, apiClient, toRemove, existingByKey, desiredKeys, ops>>
  /\ UNCHANGED otherThanRec

RecNext ==
  \/ StartReconcile
  \/ TeamList
  \/ TeamAdd
  \/ TeamRemove
  \/ MappingList
  \/ DeleteMapping
  \/ DeleteMappingAlt
  \/ CreateMapping
  \/ CreateMappingAlt

DeltaAgain ==
  IF kind = "mappings"
  THEN LET d == mappingDelta(desired, SetToSeq(remote)) IN [toAdd |-> d.toAdd, toRemove |-> d.toRemove]
  ELSE LET d == diffCaseInsensitive(normalizeStrings(desired), normalizeStrings(SetToSeq(remote)))
       IN [toAdd |-> Range(d.toAdd), toRemove |-> Range(d.toRemove)]

RemoteKeys == IF kind = "mappings" THEN RemoteMappingKeys ELSE TeamKeys(remote)

DesiredKeys == IF kind = "mappings" THEN MappingKeys(desired) ELSE StringKeys(desired)

\* C2: after a reconcile call returns without error the set of remote item
\* keys equals the set of normalized desired keys, and the differ run again
\* on the re-fetched remote state yields an empty toAdd and an empty toRemove.
C2_ReconcileConverges ==
  (pc = "done" /\ ~err) =>
    /\ RemoteKeys = DesiredKeys
    /\ DeltaAgain.toAdd = {}
    /\ DeltaAgain.toRemove = {}

\* C4: a failed removal or addition call is followed by nothing but a further
\* attempt of the same call on an alternate host, and when no such attempt
\* follows the reconciler returns an error at once: no call is issued for
\* another item of the delta, and none after the error is returned.
\* Two calls in a row are never the same call: they differ in the operation,
\* the item or the host.
CallIssued == lastCall' # lastCall /\ lastCall'.op # "none"

C4_FirstErrorEndsReconcile ==
  [][ /\ (CallIssued /\ ~lastCall'.ok) =>
            \/ pc' = "done" /\ err'
            \/ pc' \in {"deleteAlt", "createAlt"} /\ cur' = lastCall'.item
      /\ (CallIssued /\ ~lastCall.ok) =>
            /\ lastCall'.op = lastCall.op
            /\ lastCall'.item = lastCall.item
            /\ lastCall'.host # lastCall.host
      /\ (pc = "done" /\ err) => ~CallIssued ]_vars

C4_Witness ==
  /\ pc = "done" /\ err
  /\ lastCall.op \in {"add", "remove"} /\ ~lastCall.ok
  /\ \/ kind \in TeamKinds /\ lastCall.op = "add" /\ Len(toRemove) > 0
     \/ kind = "mappings" /\ Cardinality(toAdd) + Cardinality(toRemove) > 1

\* A list of names in ascending order of the case-insensitive key.
AscendingByKey(names) ==
  \A i \in 1..Len(names) - 1 : StrLess(ToLower(TrimSpace(names[i])), ToLower(TrimSpace(names[i + 1])))

\* The names of a bulk call of a team reconciler ascend by key.
BulkCallAscends ==
  (kind \in TeamKinds /\ lastCall'.op \in {"add", "remove"}) => AscendingByKey(lastCall'.item)

\* Two calls of one loop of the mapping reconciler, one after the other,
\* on different mappings: the keys ascend.
MappingCallsAscend ==
  (/\ kind = "mappings"
   /\ lastCall.op \in {"add", "remove"}
   /\ lastCall'.op = lastCall.op
   /\ lastCall.ok
   /\ lastCall'.item # lastCall.item) => StrLess(lastCall.item, lastCall'.item)

\* C23: toAdd and toRemove are ordered ascending by item key (the
\* case-insensitive key for names, the composite key for mappings), so the
\* removal and addition calls of a reconciliation are issued in that order.
C23_AscendingByKey == [][BulkCallAscends /\ MappingCallsAscend]_vars

Spec == Init /\ [][RecNext]_vars

(***************************************************************************)
(* The retry loops.  Three copies of the same loop exist in the source:    *)
(* retryTransport.RoundTrip and retryRoundTripper.RoundTrip                *)
(* (internal/provider/retry_transport.go) and GitHubClient.Do              *)
(* (internal/client/github_client.go).  Each is modelled from its own      *)
(* code.  Durations and clock readings are whole seconds; the clock reads  *)
(* 0 when the call starts.                                                 *)
(***************************************************************************)

\* newRetryTransport defaults, in seconds.
t_maxRetryTimeout == 300

t_initialBackoff == 1

t_maxBackoff == 60

t_backoffFactor == 2

\* newRetryRoundTripper defaults, in seconds.
r_maxRetryTimeout == 300

r_initialBackoff == 1

r_maxBackoff == 60

r_backoffFactor == 2

\* Package constants of internal/client, in seconds.
maxRetryTimeout == 300

initialBackoff == 1

maxBackoff == 60

backoffFactor == 2

\* The Retry-After header of a response: absent (or empty), an integer of
\* seconds, an HTTP date (n is the clock reading it names), or text that is
\* neither.
NoRetryAfter == [kind |-> "none", n |-> 0]

RetryAfterSeconds(n) == [kind |-> "int", n |-> n]

RetryAfterDate(t) == [kind |-> "date", n |-> t]

RetryAfterJunk == [kind |-> "junk", n |-> 0]

\* time.Duration(rand.Float64() * 0.25 * float64(currentBackoff)), with
\* rand.Float64() = jit / JitterSteps, a value of [0, 1).
jitter(jit, currentBackoff) == (jit * currentBackoff) \div (4 * JitterSteps)

t_shouldRetry_retries500(status) == status \in {429, 500, 502, 503, 504}

t_shouldRetry(status) ==
  CASE status = 429 -> TRUE
    [] status = 503 -> TRUE
    [] status = 504 -> TRUE
    [] status = 502 -> TRUE
    [] OTHER -> FALSE

r_shouldRetry(status) == status \in {429, 503, 504, 502}

shouldRetryStatus(status) == status \in {429, 503, 504, 502}

\* now is the clock reading time.Until takes for a date header.
t_calculateBackoff(hdr, currentBackoff, now, jit) ==
  IF hdr.kind = "int"
  THEN LET duration == hdr.n
       IN IF duration > t_maxBackoff THEN t_maxBackoff ELSE duration
  ELSE IF hdr.kind = "date"
  THEN LET d0 == hdr.n - now
           d1 == IF d0 < 0 THEN t_initialBackoff ELSE d0
       IN IF d1 > t_maxBackoff THEN t_maxBackoff ELSE d1
  ELSE currentBackoff + jitter(jit, currentBackoff)

r_calculateBackoff(hdr, currentBackoff, now, jit) ==
  IF hdr.kind = "int"
  THEN LET duration == hdr.n
       IN IF duration > r_maxBackoff THEN r_maxBackoff ELSE duration
  ELSE IF hdr.kind = "date"
  THEN LET d0 == hdr.n - now
           d1 == IF d0 < 0 THEN r_initialBackoff ELSE d0
       IN IF d1 > r_maxBackoff THEN r_maxBackoff ELSE d1
  ELSE currentBackoff + jitter(jit, currentBackoff)

calculateRetryBackoff(hdr, currentBackoff, now, jit) ==
  IF hdr.kind = "int"
  THEN LET duration == hdr.n
       IN IF duration > maxBackoff THEN maxBackoff ELSE duration
  ELSE IF hdr.kind = "date"
  THEN LET d0 == hdr.n - now
           d1 == IF d0 < 0 THEN initialBackoff ELSE d0
       IN IF d1 > maxBackoff THEN maxBackoff ELSE d1
  ELSE currentBackoff + jitter(jit, currentBackoff)

t_nextBackoff(current) ==
  LET next == current * t_backoffFactor
  IN IF next > t_maxBackoff THEN t_maxBackoff ELSE next

r_nextBackoff(current) == Min(current * r_backoffFactor, r_maxBackoff)

nextRetryBackoff_unclamped(current) == current * backoffFactor

nextRetryBackoff(current) ==
  LET next == current * backoffFactor
  IN IF next > maxBackoff THEN maxBackoff ELSE next

(***************************************************************************)
(* One exchange: what the wrapped transport and the clock give the loop in *)
(* one pass.  now1 is the reading of the deadline check, now2 the reading  *)
(* time.Until takes for a date header, now3 the reading that gives the     *)
(* remaining time.  getBodyErr is req.GetBody failing, which only          *)
(* retryTransport calls.                                                   *)
(***************************************************************************)
LoopNames == {"retryTransport", "retryRoundTripper", "GitHubClient"}

RetryableSeen == {429, 502, 503, 504}

TerminalSeen == {200, 500}

\* Time a request takes: at once, or the 90 s client timeout.
CallDurations == {0, 90}

\* Time between two clock readings of one pass.
Steps == {0, 1}

SecondsSeen == {-5, 5, 61}

DateOffsetsSeen == {-10, 5, 100}

Exchange(gb, net, status, hdr, now1, now2, now3, jit) ==
  [getBodyErr |-> gb, net |-> net, status |-> status, hdr |-> hdr,
   now1 |-> now1, now2 |-> now2, now3 |-> now3, jit |-> jit]

\* A GetBody error stops retryTransport alone; the exchange drawn with it is
\* read by the other two loops only, and is one that ends them as well.
Exchanges(now) ==
  LET arrivals == { now + d : d \in CallDurations }
  IN UNION { { Exchange(gb, TRUE, 0, NoRetryAfter, a, a, a, 0) : gb \in BOOLEAN }
             \cup { Exchange(gb, FALSE, st, NoRetryAfter, a, a, a, 0) :
                      gb \in BOOLEAN, st \in TerminalSeen }
             \cup { Exchange(FALSE, FALSE, st, h, a, a, a + d3, j) :
                      st \in RetryableSeen, h \in {NoRetryAfter, RetryAfterJunk},
                      d3 \in Steps, j \in 0..(JitterSteps - 1) }
             \cup { Exchange(FALSE, FALSE, st, RetryAfterSeconds(n), a, a, a + d3, 0) :
                      st \in RetryableSeen, n \in SecondsSeen, d3 \in Steps }
             \cup { Exchange(FALSE, FALSE, st, RetryAfterDate(a + off), a, a + d2, a + d2, 0) :
                      st \in RetryableSeen, off \in DateOffsetsSeen, d2 \in Steps }
           : a \in arrivals }

\* The local variables of one running loop, with what it last saw: last is
\* the kind of the latest exchange (a transport error, a response of
\* RetryableSeen, one of TerminalSeen, a GetBody error) and status is the
\* status of the response the loop returned.
LoopStart(first, timeout) ==
  [pc |-> "send", attempt |-> 0, backoff |-> first, deadline |-> 0 + timeout,
   sends |-> 0, last |-> "none", status |-> 0, checkedAt |-> 0,
   hdr |-> NoRetryAfter, computed |-> 0, sleep |-> 0, outcome |-> "none"]

observe(st, x) ==
  [st EXCEPT !.sends = @ + 1,
             !.last = IF x.net THEN "neterr"
                      ELSE IF x.status \in RetryableSeen THEN "retryable"
                      ELSE "terminal",
             !.checkedAt = x.now1]

return(st, outcome) == [st EXCEPT !.pc = "done", !.outcome = outcome]

returnResp(st, x) == [st EXCEPT !.pc = "done", !.outcome = "resp", !.status = x.status]

goSleep(st, x, computed, sleepDuration) ==
  [st EXCEPT !.pc = "sleep", !.hdr = x.hdr, !.computed = computed, !.sleep = sleepDuration]

wake(st, next) ==
  [st EXCEPT !.pc = "send", !.backoff = next, !.attempt = @ + 1,
             !.hdr = NoRetryAfter, !.computed = 0, !.sleep = 0, !.checkedAt = 0]

\* retryTransport.RoundTrip: one pass of the loop, up to the select.
t_RoundTrip_sleepsFullWait(st, x) ==
  IF x.getBodyErr THEN return([st EXCEPT !.last = "getbody"], "getbodyerr")
  ELSE LET seen == observe(st, x)
       IN IF x.net THEN return(seen, "neterr")
          ELSE IF ~t_shouldRetry(x.status) THEN returnResp(seen, x)
          ELSE IF x.now1 > st.deadline THEN returnResp(seen, x)
          ELSE LET sleepDuration == t_calculateBackoff(x.hdr, st.backoff, x.now2, x.jit)
               IN goSleep(seen, x, sleepDuration, sleepDuration)

t_RoundTrip(st, x) ==
  IF x.getBodyErr THEN return([st EXCEPT !.last = "getbody"], "getbodyerr")
  ELSE LET seen == observe(st, x)
       IN IF x.net THEN return(seen, "neterr")
          ELSE IF ~t_shouldRetry(x.status) THEN returnResp(seen, x)
          ELSE IF x.now1 > st.deadline THEN returnResp(seen, x)
          ELSE LET sleepDuration == t_calculateBackoff(x.hdr, st.backoff, x.now2, x.jit)
                   remaining == st.deadline - x.now3
               IN goSleep(seen, x, sleepDuration,
                          IF sleepDuration > remaining THEN remaining ELSE sleepDuration)

\* retryRoundTripper.RoundTrip: the same pass, with no GetBody call.
r_RoundTrip(st, x) ==
  LET seen == observe(st, x)
  IN IF x.net THEN return(seen, "neterr")
     ELSE IF ~r_shouldRetry(x.status) THEN returnResp(seen, x)
     ELSE IF x.now1 > st.deadline THEN returnResp(seen, x)
     ELSE LET sleepDuration == r_calculateBackoff(x.hdr, st.backoff, x.now2, x.jit)
              remaining == st.deadline - x.now3
          IN goSleep(seen, x, sleepDuration,
                     IF sleepDuration > remaining THEN remaining ELSE sleepDuration)

\* GitHubClient.Do: the same pass; the request is built anew from the
\* marshalled bytes.
Do(st, x) ==
  LET seen == observe(st, x)
  IN IF x.net THEN return(seen, "neterr")
     ELSE IF ~shouldRetryStatus(x.status) THEN returnResp(seen, x)
     ELSE IF x.now1 > st.deadline THEN returnResp(seen, x)
     ELSE LET sleepDuration == calculateRetryBackoff(x.hdr, st.backoff, x.now2, x.jit)
              remaining == st.deadline - x.now3
          IN goSleep(seen, x, sleepDuration,
                     IF sleepDuration > remaining THEN remaining ELSE sleepDuration)

pass(l, st, x) ==
  CASE l = "retryTransport" -> t_RoundTrip(st, x)
    [] l = "retryRoundTripper" -> r_RoundTrip(st, x)
    [] OTHER -> Do(st, x)

\* The cases of `select { case <-ctx.Done(): ... case <-time.After(d): }` that
\* can be taken: a done context is ready at once, the timer only once d has
\* passed, and Go picks among ready cases at random.
selectCases_timerOnly(done, d) == {"timer"}

selectCases(done, d) ==
  IF done /\ d > 0 THEN {"ctx"}
  ELSE IF done THEN {"ctx", "timer"}
  ELSE {"timer"}

\* After the select: return the context's error, or grow the backoff and
\* count the attempt.
afterSelect(l, st, c) ==
  IF c = "ctx" THEN return(st, "ctxerr")
  ELSE CASE l = "retryTransport" -> wake(st, t_nextBackoff(st.backoff))
         [] l = "retryRoundTripper" -> wake(st, r_nextBackoff(st.backoff))
         [] OTHER -> wake(st, nextRetryBackoff(st.backoff))

ctxWaits(d) == { e \in {0, d - 1} : e >= 0 }

Sleeping(l) == loops[l].pc = "sleep"

RetryInit ==
  /\ loops = [l \in LoopNames |->
                CASE l = "retryTransport" -> LoopStart(t_initialBackoff, t_maxRetryTimeout)
                  [] l = "retryRoundTripper" -> LoopStart(r_initialBackoff, r_maxRetryTimeout)
                  [] OTHER -> LoopStart(initialBackoff, maxRetryTimeout)]
  /\ clock = 0
  /\ ctxDone = FALSE
  /\ cancelledAsleep = FALSE
  /\ DiffIdle
  /\ RecIdle
  /\ RegionIdle /\ OperationIdle /\ ResolverIdle /\ HelperIdle

\* Every loop that is about to send gets the same exchange.
RetryAttempt ==
  /\ { l \in LoopNames : loops[l].pc = "send" } # {}
  /\ \A l \in LoopNames : loops[l].pc = "send" => loops[l].attempt < MaxAttempts
  /\ \E x \in Exchanges(clock) :
       /\ loops' = [l \in LoopNames |->
                      IF loops[l].pc = "send" THEN pass(l, loops[l], x) ELSE loops[l]]
       /\ clock' = x.now3
  /\ UNCHANGED <<ctxDone, cancelledAsleep>>
  /\ UNCHANGED otherThanRetry

\* The caller's context is cancelled.
RetryCancel ==
  /\ ~ctxDone
  /\ { l \in LoopNames : loops[l].pc # "done" } # {}
  /\ ctxDone' = TRUE
  /\ cancelledAsleep' = (\E l \in LoopNames : Sleeping(l) /\ loops[l].sleep > 0)
  /\ UNCHANGED <<loops, clock>>
  /\ UNCHANGED otherThanRetry

\* The select of every sleeping loop takes a case.  The timer case is taken
\* when the sleep has passed (a sleep of zero or less passes at once).
RetrySelect ==
  /\ { l \in LoopNames : Sleeping(l) } # {}
  /\ \E c \in {"ctx", "timer"} :
       /\ { l \in LoopNames : Sleeping(l) /\ c \in selectCases(ctxDone, loops[l].sleep) } # {}
       /\ LET caseOf(l) == IF c \in selectCases(ctxDone, loops[l].sleep) THEN c
                           ELSE CHOOSE k \in selectCases(ctxDone, loops[l].sleep) : TRUE
              longest == CHOOSE d \in { loops[l].sleep : l \in { k \in LoopNames : Sleeping(k) } } :
                           \A l \in LoopNames : Sleeping(l) => loops[l].sleep <= d
          IN /\ loops' = [l \in LoopNames |->
                            IF Sleeping(l) THEN afterSelect(l, loops[l], caseOf(l))
                            ELSE loops[l]]
             /\ IF \A l \in LoopNames : Sleeping(l) => caseOf(l) = "ctx"
                THEN \E e \in ctxWaits(longest) : clock' = clock + e
                ELSE clock' = clock + (IF longest > 0 THEN longest ELSE 0)
  /\ UNCHANGED <<ctxDone, cancelledAsleep>>
  /\ UNCHANGED otherThanRetry

RetryNext == RetryAttempt \/ RetryCancel \/ RetrySelect

SpecRetry == RetryInit /\ [][RetryNext]_vars

(***************************************************************************)
(* Properties of the retry loops.                                          *)
(***************************************************************************)

\* C5: a loop goes on to a further attempt (it sleeps, or is about to send
\* again) only after a response with status 429, 502, 503 or 504; after a
\* transport error it has returned that error, and after a response with any
\* other status it has returned that response.
C5_RetryOnlyOnRetryableStatus ==
  \A l \in LoopNames :
    LET st == loops[l]
    IN /\ (st.pc # "done" /\ st.sends > 0) => st.last = "retryable"
       /\ st.last = "neterr" => (st.pc = "done" /\ st.outcome = "neterr")
       /\ st.last = "terminal" =>
            (st.pc = "done" /\ st.outcome = "resp" /\ st.status \notin {429, 502, 503, 504})

C5_Witness ==
  /\ \A l \in LoopNames : loops[l].pc = "done" /\ loops[l].sends = 3
  /\ loops["retryTransport"].outcome = "resp" /\ loops["retryTransport"].status = 500
  /\ loops["GitHubClient"].outcome = "resp"

\* C6: a retryable response whose deadline check reads a clock past the
\* deadline (300 s after the call began) is returned, with no error and no
\* further attempt; and a sleep that is asked for never ends past the
\* deadline.
C6_DeadlineEndsRetries ==
  \A l \in LoopNames :
    LET st == loops[l]
    IN /\ (st.last = "retryable" /\ st.checkedAt > 300) =>
            (st.pc = "done" /\ st.outcome = "resp" /\ st.status \in {429, 502, 503, 504})
       /\ st.pc = "sleep" => clock + st.sleep <= 300

C6_Witness ==
  /\ \A l \in LoopNames :
       /\ loops[l].pc = "done" /\ loops[l].outcome = "resp"
       /\ loops[l].status = 429 /\ loops[l].checkedAt > 300
  /\ ~ctxDone

C6_WitnessSleepCut ==
  \A l \in LoopNames :
    loops[l].pc = "sleep" /\ loops[l].computed > loops[l].sleep /\ clock + loops[l].sleep = 300

\* C7: with no Retry-After header on the response, the computed wait is at
\* most 60 s.
C7_WaitWithinCeiling ==
  \A l \in LoopNames :
    (loops[l].pc = "sleep" /\ loops[l].hdr.kind = "none") => loops[l].computed <= 60

\* C8: with a Retry-After of n seconds the computed wait is n seconds, except
\* 1 s for a negative n and 60 s for n above 60.
C8_RetryAfterSeconds ==
  \A l \in LoopNames :
    (loops[l].pc = "sleep" /\ loops[l].hdr.kind = "int") =>
      loops[l].computed = (IF loops[l].hdr.n < 0 THEN 1
                           ELSE IF loops[l].hdr.n > 60 THEN 60
                           ELSE loops[l].hdr.n)

\* C9: a loop that is asleep for a positive time with the caller's context
\* cancelled leaves the sleep only by returning the context's error, before
\* the sleep has passed and with no further attempt.
C9_CancelEndsSleep ==
  [][\A l \in LoopNames :
       (ctxDone /\ loops[l].pc = "sleep" /\ loops[l].sleep > 0 /\ loops'[l] # loops[l]) =>
         /\ loops'[l].pc = "done" /\ loops'[l].outcome = "ctxerr"
         /\ loops'[l].sends = loops[l].sends
         /\ clock' - clock < loops[l].sleep]_vars

C9_Witness ==
  /\ cancelledAsleep
  /\ \A l \in LoopNames : loops[l].pc = "done" /\ loops[l].outcome = "ctxerr" /\ loops[l].sends = 2

\* C10: fed the same exchanges, the three loops are in the same place with
\* the same attempt count, backoff, sleep and outcome, unless GetBody has
\* failed in retryTransport; the other two agree always.
C10_LoopsAgree ==
  /\ loops["retryRoundTripper"] = loops["GitHubClient"]
  /\ loops["retryTransport"].last # "getbody" =>
       loops["retryTransport"] = loops["retryRoundTripper"]

C10_Witness ==
  /\ \A l \in LoopNames : loops[l].pc = "done" /\ loops[l].outcome = "resp"
  /\ loops["GitHubClient"].attempt = 6
  /\ loops["GitHubClient"].backoff = 60

(***************************************************************************)
(* The region functions on inputs of any shape: the wrong-region test on a *)
(* response with its body, the current hostname of a client, the fallback  *)
(* candidates, and the clone of a client for another host.                 *)
(***************************************************************************)

\* strings.Contains
Contains(s, sub) ==
  \E i \in 1..(Len(s) - Len(sub) + 1) : SubSeq(s, i, i + Len(sub) - 1) = sub

\* "invalid key=value pair"
PhraseKeyValue ==
  <<105, 110, 118, 97, 108, 105, 100, 32, 107, 101, 121, 61, 118, 97, 108, 117, 101, 32,
    112, 97, 105, 114>>

\* "authorization header"
PhraseAuthHeader ==
  <<97, 117, 116, 104, 111, 114, 105, 122, 97, 116, 105, 111, 110, 32, 104, 101, 97, 100,
    101, 114>>

\* The body part of isBadAuthorizationHeaderError: the body is read, put in
\* lower case, and must contain both phrases. readErr is
\* utils.ReadAndRestoreResponseBody failing.
bodyIsBadAuthorization_caseSensitive(body, readErr) ==
  IF readErr THEN FALSE
  ELSE Contains(body, PhraseKeyValue) /\ Contains(body, PhraseAuthHeader)

bodyIsBadAuthorization(body, readErr) ==
  IF readErr THEN FALSE
  ELSE LET msg == ToLower(body)
       IN Contains(msg, PhraseKeyValue) /\ Contains(msg, PhraseAuthHeader)

\* What shouldTryAlternateHostname is given: err, httpResp (present or nil),
\* its status and its body.
callResult(x) ==
  [err |-> x.err, hasResp |-> x.hasResp, status |-> x.status,
   badAuth |-> bodyIsBadAuthorization(x.body, x.readErr)]

\* Bodies: the message of the repository's test, "Invalid key=value pair
\* (missing equal-sign) in Authorization header"; the two phrases in lower
\* case; each phrase alone; "forbidden"; and no body.
BodyAsSent ==
  <<73>> \o Tail(PhraseKeyValue) \o <<32, 40, 109, 105, 115, 115, 105, 110, 103, 32, 101, 113, 117, 97, 108, 45, 115, 105, 103, 110, 41, 32, 105, 110, 32>>
         \o <<65>> \o Tail(PhraseAuthHeader)

BodyLower == PhraseKeyValue \o <<32, 105, 110, 32>> \o PhraseAuthHeader

BodyForbidden == <<102, 111, 114, 98, 105, 100, 100, 101, 110>>

BodiesSeen == {BodyAsSent, BodyLower, PhraseKeyValue, PhraseAuthHeader, BodyForbidden, <<>>}

StatusesClassified == {200, 400, 403, 404, 500}

ClassifyInputs ==
  [err : BOOLEAN, hasResp : BOOLEAN, status : StatusesClassified,
   body : BodiesSeen, readErr : BOOLEAN]

\* A client configuration: the fields of management.Configuration that the
\* functions read or write. DefaultHeader names a map of the heap, HTTPClient
\* an http.Client; the hosts are sequences of labels.
Configuration(httpClient, userAgent, debug, header, index, baseDomain, suffix, baseHostname) ==
  [HTTPClient |-> httpClient, UserAgent |-> userAgent, Debug |-> debug,
   DefaultHeader |-> header, DefaultServerIndex |-> index,
   baseDomain |-> baseDomain, suffix |-> suffix, baseHostname |-> baseHostname,
   protocol |-> "https"]

\* currentPingOneHostname of a configuration (the empty host if there is none).
currentPingOneHostname(cfg) ==
  CASE cfg.DefaultServerIndex = 0 ->
         IF cfg.baseDomain = <<>> \/ cfg.suffix = <<>> THEN <<>>
         ELSE cfg.baseDomain \o cfg.suffix
    [] cfg.DefaultServerIndex = 1 -> cfg.baseHostname
    [] OTHER -> <<>>

\* The heap the clients live in: configurations and header maps, each named
\* by its position. A client is nil, or points to a configuration (0: nil).
NilClient == [isNil |-> TRUE, cfg |-> 0]

ClientOf(cfgId) == [isNil |-> FALSE, cfg |-> cfgId]

NoHeaders == [k \in {} |-> ""]

\* management.NewConfiguration(): a new configuration with a new, empty
\* header map, put at the end of the heap.
NewConfiguration(heap) ==
  [cfgs |-> Append(heap.cfgs,
                   Configuration(0, "", FALSE, Len(heap.hdrs) + 1, 0,
                                 <<"pingone">>, <<"com">>, <<>>)),
   hdrs |-> Append(heap.hdrs, NoHeaders)]

\* for k, v := range origCfg.DefaultHeader { cfg.DefaultHeader[k] = v }
copyHeaders(from, into) ==
  [k \in DOMAIN from \cup DOMAIN into |-> IF k \in DOMAIN from THEN from[k] ELSE into[k]]

cloneManagementClientWithBaseHostname_sharesConfig(heap, origClient, baseHostname) ==
  IF origClient.isNil \/ baseHostname = <<>> \/ origClient.cfg = 0
  THEN [err |-> TRUE, client |-> NilClient, heap |-> heap]
  ELSE [err |-> FALSE, client |-> origClient,
        heap |-> [heap EXCEPT !.cfgs[origClient.cfg].DefaultServerIndex = 1,
                              !.cfgs[origClient.cfg].baseHostname = baseHostname]]

cloneManagementClientWithBaseHostname(heap, origClient, baseHostname) ==
  IF origClient.isNil THEN [err |-> TRUE, client |-> NilClient, heap |-> heap]
  ELSE IF baseHostname = <<>> THEN [err |-> TRUE, client |-> NilClient, heap |-> heap]
  ELSE IF origClient.cfg = 0 THEN [err |-> TRUE, client |-> NilClient, heap |-> heap]
  ELSE LET origCfg == heap.cfgs[origClient.cfg]
           fresh   == NewConfiguration(heap)
           cfg     == Len(fresh.cfgs)
           hdr     == fresh.cfgs[cfg].DefaultHeader
       IN [err |-> FALSE,
           client |-> ClientOf(cfg),
           heap |-> [fresh EXCEPT
                       !.cfgs[cfg].HTTPClient = origCfg.HTTPClient,
                       !.cfgs[cfg].UserAgent = origCfg.UserAgent,
                       !.cfgs[cfg].Debug = origCfg.Debug,
                       !.hdrs[hdr] = copyHeaders(heap.hdrs[origCfg.DefaultHeader], @),
                       !.cfgs[cfg].DefaultServerIndex = 1,
                       !.cfgs[cfg].baseHostname = baseHostname,
                       !.cfgs[cfg].protocol = "https"]]

\* The configurations the functions are applied to: either server index, a
\* known or an unknown suffix, a host of any region or a foreign one.
SuffixesSeen == {<<>>, <<"com">>, <<"eu">>, <<"ca">>, <<"asia">>, <<"com", "au">>, <<"org">>}

HostsSeen ==
  {<<>>, HostCom, HostEu, HostCa, HostAsia, HostComAu,
   <<"api", "example", "com">>, <<"localhost">>}

HeadersSeen == {NoHeaders, [k \in {"X-Trace"} |-> "1"]}

ConfigurationsSeen ==
  { Configuration(1, "tf", debug, 1, index, <<"pingone">>, suffix, host) :
      debug \in BOOLEAN, index \in {0, 1, 2}, suffix \in SuffixesSeen, host \in HostsSeen }

HeapOf(cfg, headers) == [cfgs |-> <<cfg>>, hdrs |-> <<headers>>]

ClientsSeen == {NilClient, ClientOf(0), ClientOf(1)}

NoOutput == [set |-> FALSE]

RegionInit ==
  /\ \/ \E x \in ClassifyInputs :
          region = [fn |-> "classify", arg |-> x, out |-> NoOutput]
     \/ \E cfg \in ConfigurationsSeen :
          region = [fn |-> "candidates", arg |-> cfg, out |-> NoOutput]
     \/ \E cfg \in {c \in ConfigurationsSeen : c.DefaultServerIndex = 1 /\ c.suffix = <<"com">>} :
        \E headers \in HeadersSeen, origClient \in ClientsSeen, host \in {<<>>, HostEu, HostCa} :
          region = [fn |-> "clone",
                    arg |-> [heap |-> HeapOf(cfg, headers), client |-> origClient,
                             baseHostname |-> host],
                    out |-> NoOutput]
  /\ DiffIdle /\ RecIdle /\ RetryIdle /\ OperationIdle /\ ResolverIdle /\ HelperIdle

\* shouldTryAlternateHostname(err, httpResp)
Classify ==
  /\ region.fn = "classify" /\ ~region.out.set
  /\ region' = [region EXCEPT !.out =
                  [set |-> TRUE, wrongRegion |-> shouldTryAlternateHostname(callResult(region.arg))]]
  /\ UNCHANGED otherThanRegion

\* pingOneFallbackBaseHostnames(apiClient)
Candidates ==
  /\ region.fn = "candidates" /\ ~region.out.set
  /\ region' = [region EXCEPT !.out =
                  [set |-> TRUE,
                   current |-> currentPingOneHostname(region.arg),
                   hosts |-> pingOneFallbackBaseHostnames(currentPingOneHostname(region.arg))]]
  /\ UNCHANGED otherThanRegion

\* cloneManagementClientWithBaseHostname(apiClient, baseHostname)
Clone ==
  /\ region.fn = "clone" /\ ~region.out.set
  /\ LET got == cloneManagementClientWithBaseHostname(region.arg.heap, region.arg.client,
                                                      region.arg.baseHostname)
     IN region' = [region EXCEPT !.out =
                     [set |-> TRUE, err |-> got.err, client |-> got.client, heap |-> got.heap]]
  /\ UNCHANGED otherThanRegion

RegionNext == Classify \/ Candidates \/ Clone

SpecRegion == RegionInit /\ [][RegionNext]_vars

Classified == region # <<>> /\ region.fn = "classify" /\ region.out.set

Listed == region # <<>> /\ region.fn = "candidates" /\ region.out.set

Cloned == region # <<>> /\ region.fn = "clone" /\ region.out.set

\* C12 as amended: a call is classified wrong-region iff it failed with a
\* response whose status is 404, or whose status is 403 and whose body could
\* be read and, compared without regard to letter case, contains both
\* "invalid key=value pair" and "authorization header"; a call with no error
\* or with no response is never classified wrong-region.
C12_WrongRegionClassification ==
  Classified =>
    LET x == region.arg
        lower == ToLower(x.body)
    IN region.out.wrongRegion <=>
         /\ x.err /\ x.hasResp
         /\ \/ x.status = 404
            \/ /\ x.status = 403
               /\ ~x.readErr
               /\ Contains(lower, PhraseKeyValue) /\ Contains(lower, PhraseAuthHeader)

\* C12 as stated: the body itself contains the two phrases as written.
C12_PhrasesAsWritten ==
  Classified =>
    LET x == region.arg
    IN region.out.wrongRegion <=>
         /\ x.err /\ x.hasResp
         /\ \/ x.status = 404
            \/ /\ x.status = 403
               /\ ~x.readErr
               /\ Contains(x.body, PhraseKeyValue) /\ Contains(x.body, PhraseAuthHeader)

\* The service's own message, in its own capitals, with a 403: wrong-region.
C12_Witness ==
  /\ Classified
  /\ region.arg.err /\ region.arg.hasResp /\ ~region.arg.readErr
  /\ region.arg.status = 403
  /\ region.arg.body = BodyAsSent
  /\ region.out.wrongRegion

\* The precedence of each suffix, longest suffix first.
Precedence ==
  <<[suffix |-> <<"com", "au">>, hosts |-> <<HostAsia, HostCom, HostEu, HostCa>>],
    [suffix |-> <<"asia">>,      hosts |-> <<HostComAu, HostCom, HostEu, HostCa>>],
    [suffix |-> <<"eu">>,        hosts |-> <<HostCom, HostCa, HostAsia, HostComAu>>],
    [suffix |-> <<"ca">>,        hosts |-> <<HostCom, HostEu, HostAsia, HostComAu>>],
    [suffix |-> <<"com">>,       hosts |-> <<HostEu, HostCa, HostAsia, HostComAu>>]>>

FiveDefaults == <<HostCom, HostEu, HostCa, HostAsia, HostComAu>>

EndsWith(host, suffix) ==
  /\ Len(host) > Len(suffix)
  /\ \A i \in 1..Len(suffix) : host[Len(host) - Len(suffix) + i] = suffix[i]

PrecedenceOf(host) ==
  LET rows == {i \in 1..Len(Precedence) : EndsWith(host, Precedence[i].suffix)}
  IN IF rows = {} THEN FiveDefaults
     ELSE Precedence[CHOOSE i \in rows : \A j \in rows : i <= j].hosts

\* C14: for every current hostname the candidate list is the precedence list
\* of the host's suffix (the five defaults when no suffix is known), does not
\* contain the current host, contains no host twice, and for a host ending
\* in .com starts with the .eu host.
C14_CandidateList ==
  Listed =>
    LET current == region.out.current
        hosts == region.out.hosts
    IN /\ hosts = PrecedenceOf(current)
       /\ \A i \in 1..Len(hosts) : hosts[i] # current
       /\ \A i, j \in 1..Len(hosts) : hosts[i] = hosts[j] => i = j
       /\ (Len(current) > 1 /\ current[Len(current)] = "com") => hosts[1] = HostEu

C14_Witness ==
  /\ Listed
  /\ region.arg.DefaultServerIndex = 1
  /\ region.out.current = HostCom
  /\ region.out.hosts[1] = HostEu
  /\ Len(region.out.hosts) = 4

\* C16: a clone that succeeds leaves the original's configuration (host,
\* server index) and default headers as they were; the clone has a
\* configuration and a header map of its own, set to the new host, and the
\* same HTTP client as the original.
C16_CloneLeavesOriginal ==
  Cloned =>
    LET before == region.arg.heap
        after == region.out.heap
        orig == region.arg.client.cfg
    IN IF region.out.err THEN after = before
       ELSE LET clone == region.out.client.cfg
            IN /\ after.cfgs[orig] = before.cfgs[orig]
               /\ after.hdrs[before.cfgs[orig].DefaultHeader] = before.hdrs[before.cfgs[orig].DefaultHeader]
               /\ clone \notin DOMAIN before.cfgs
               /\ after.cfgs[clone].DefaultHeader \notin DOMAIN before.hdrs
               /\ after.cfgs[clone].DefaultServerIndex = 1
               /\ after.cfgs[clone].baseHostname = region.arg.baseHostname
               /\ after.cfgs[clone].HTTPClient = before.cfgs[orig].HTTPClient
               /\ after.hdrs[after.cfgs[clone].DefaultHeader] = before.hdrs[before.cfgs[orig].DefaultHeader]

C16_Witness ==
  /\ Cloned
  /\ ~region.out.err
  /\ region.arg.heap.cfgs[1].baseHostname = HostCom
  /\ region.arg.baseHostname = HostEu
  /\ region.out.heap.cfgs[1].baseHostname = HostCom
  /\ region.out.heap.cfgs[region.out.client.cfg].baseHostname = HostEu
  /\ region.arg.heap.hdrs[1] # NoHeaders

(***************************************************************************)
(* A create or update operation as the sequence of its remote calls        *)
(***************************************************************************)
\* The most mappings one reconcile of the operation deletes, and creates.
MaxDelta == 1

\* The longest listing and the longest caller's list handed to
\* resolvePropagationRuleMappings.
MaxResolve == 2

\* How many times in a row the helpers that read a response body are applied.
MaxReads == 3

\* How many attempts of one request the model follows.
MaxSends == 3

\* newManagementClient: http.Client{Transport: &oauth2.Transport{Base:
\* http.DefaultTransport}, Timeout: 90 s}. Do sends the request once and
\* hands the answer back, whatever its status, within the timeout.
managementHTTPClientDo(answer, took) ==
  [answer |-> answer, sends |-> 1, elapsed |-> took]

\* The answers a host gives to a call of the operation.
OpAnswers == {Status(200), Status(404), BadAuth403, Status(500), Status(429), NetError}

RuleCreateAnswers == OpAnswers \cup {Status(405)}

OpExchanges == {managementHTTPClientDo(a, d) : a \in OpAnswers, d \in CallDurations}

\* createPropagationRuleViaPlan on one host: the plan-scoped POST; after a
\* 404 or 405 the legacy POST on the same host; then the id resolver, which
\* fails with the response of the POST that succeeded.
createPropagationRuleViaPlan(planPost, legacyPost, idErr) ==
  LET first == sdkResult(planPost)
      posted == IF first.err /\ first.hasResp /\ first.status \in {404, 405}
                THEN sdkResult(legacyPost) ELSE first
  IN IF posted.err THEN posted
     ELSE IF idErr THEN [posted EXCEPT !.err = TRUE]
     ELSE posted

\* createPropagationRevision, listPropagationRuleMappings, the rule PUT and
\* the mapping POST: one SDK call.
createPropagationRevision(r) == sdkResult(r)

listPropagationRuleMappings(r) == sdkResult(r)

\* The condition under which a fallback loop goes on to the next candidate.
fallbackGoesOn_afterAnyError(res) == res.err

fallbackGoesOn(res) == res.err /\ shouldTryAlternateHostname(res)

NoCallYet ==
  [step |-> "none", host |-> <<>>, first |-> <<>>, alt |-> FALSE,
   res |-> sdkResult(Status(200)), active |-> "none", status |-> 0, sends |-> 0, elapsed |-> 0]

NoReturn == [step |-> "none"]

\* The value of "active" in the body of a call that carries the rule: false
\* in the create call (payloadForCreate["active"] = false), true in the PUT
\* of Create when the plan asks for an active rule, the plan's own value in
\* any other PUT; "none" for a call that carries no rule.
payloadActive_createAsPlanned(o, step) ==
  IF step = "ruleCreate" THEN (IF o.desiredActive THEN "true" ELSE "false")
  ELSE IF step = "rulePut" THEN (IF o.desiredActive THEN "true" ELSE "plan")
  ELSE "none"

payloadActive(o, step) ==
  IF step = "ruleCreate" THEN "false"
  ELSE IF step = "rulePut" THEN (IF o.desiredActive THEN "true" ELSE "plan")
  ELSE "none"

\* One request sent: the call, its host, whether it is a fallback attempt,
\* what came back. altSucceeded is the alternate host on which the latest
\* earlier call of the operation succeeded, if any.
Sent(o, step, host, alt, res, x) ==
  [o EXCEPT !.last = [step |-> step, host |-> host,
                      first |-> IF alt THEN o.last.first ELSE host,
                      alt |-> alt, res |-> res, active |-> payloadActive(o, step),
                      status |-> IF res.hasResp THEN res.status ELSE 0,
                      sends |-> x.sends, elapsed |-> x.elapsed],
            !.altSucceeded = IF o.last.alt /\ ~o.last.res.err THEN o.last.host ELSE @,
            !.returned = NoReturn]

\* The call, with whatever fallback it has, is over: res goes to the caller.
Returned(o, res) == [o EXCEPT !.returned = [step |-> o.last.step, res |-> res], !.cands = <<>>]

Failed(o, diag) == [o EXCEPT !.pc = "done", !.diag = diag]

AfterRevision(o) == [o EXCEPT !.pc = "done"]

\* resp.State.Set(ctx, &state), then the revision.
AfterRead(o) == [o EXCEPT !.pc = "revision", !.stateSet = TRUE]

AfterPut(o) == IF o.manageMappings THEN [o EXCEPT !.pc = "mapRead"] ELSE AfterRead(o)

AfterEnsure(o) ==
  IF o.kind = "update" \/ o.putRule THEN [o EXCEPT !.pc = "rulePut"] ELSE AfterPut(o)

\* ensurePropagationRuleMappings between two of its calls.
EnsureLoop(o) ==
  IF o.nDelete > 0 THEN [o EXCEPT !.pc = "mapDelete"]
  ELSE IF o.nCreate > 0 THEN [o EXCEPT !.pc = "mapCreate"]
  ELSE AfterEnsure(o)

AfterRuleCreate_skipsEnsure(o) == AfterEnsure(o)

AfterRuleCreate(o) ==
  IF o.manageMappings /\ o.hasMappings
  THEN [o EXCEPT !.pc = "mapList", !.ensureClient = o.requestClient]
  ELSE AfterEnsure(o)

\* validatePropagationRuleMappings: the summaries of the errors it adds, in
\* the order it adds them.
RECURSIVE validatePropagationRuleMappings_targetOnly(_)
validatePropagationRuleMappings_targetOnly(mappings) ==
  IF mappings = <<>> THEN <<>>
  ELSE (IF TrimSpace(Head(mappings).tgt) = <<>> THEN <<"Missing Required Argument">> ELSE <<>>)
       \o validatePropagationRuleMappings_targetOnly(Tail(mappings))

RECURSIVE validatePropagationRuleMappings(_)
validatePropagationRuleMappings(mappings) ==
  IF mappings = <<>> THEN <<>>
  ELSE LET source     == TrimSpace(Head(mappings).src)
           target     == TrimSpace(Head(mappings).tgt)
           expression == TrimSpace(Head(mappings).expr)
       IN (IF target = <<>> THEN <<"Missing Required Argument">> ELSE <<>>)
          \o (IF source = <<>> /\ expression = <<>>
              THEN <<"Missing Required Argument", "Missing Required Argument">> ELSE <<>>)
          \o (IF source # <<>> /\ expression # <<>> THEN <<"Conflicting Arguments">> ELSE <<>>)
          \o validatePropagationRuleMappings(Tail(mappings))

\* The mappings of a plan in the model: none, one good mapping, a mapping
\* with a blank target, one with source and expression, one with neither,
\* and a good mapping followed by one without target.
PlanMappingsSeen ==
  { <<>>,
    <<Mapping(Str_a, Str_t, <<>>)>>,
    <<Mapping(Str_a, <<32>>, <<>>)>>,
    <<Mapping(Str_a, Str_t, Str_e)>>,
    <<Mapping(<<>>, Str_t, <<>>)>>,
    <<Mapping(<<>>, Str_t, Str_e), Mapping(<<>>, <<>>, Str_e)>> }

OperationInit ==
  /\ \E k \in {"create", "update"}, host \in ConfigHosts,
        mm \in BOOLEAN, ms \in PlanMappingsSeen, put \in BOOLEAN, da \in BOOLEAN :
       /\ k = "update" => put
       /\ (k = "create" /\ da) => put
       /\ ~mm => ms = <<>>
       /\ operation =
            [kind |-> k, manageMappings |-> mm, mappings |-> ms, hasMappings |-> Len(ms) > 0,
             putRule |-> put, desiredActive |-> da,
             apiClient |-> host, requestClient |-> host,
             ensureClient |-> host, ensureRequestClient |-> host,
             pc |-> "validate",
             cands |-> <<>>, nDelete |-> 0, nCreate |-> 0,
             last |-> NoCallYet, altSucceeded |-> <<>>, returned |-> NoReturn, diag |-> "none",
             stateSet |-> FALSE]
  /\ DiffIdle /\ RecIdle /\ RetryIdle /\ RegionIdle /\ ResolverIdle /\ HelperIdle

\* validationDiags := validatePropagationRuleMappings(plan.Mappings);
\* if resp.Diagnostics.HasError() { return }
Validate ==
  /\ operation.pc = "validate"
  /\ LET validationDiags == validatePropagationRuleMappings(operation.mappings)
     IN operation' =
          IF validationDiags # <<>> THEN Failed(operation, Head(validationDiags))
          ELSE [operation EXCEPT !.pc = IF operation.kind = "create" THEN "ruleCreate"
                                        ELSE IF operation.manageMappings THEN "mapList"
                                        ELSE "rulePut"]
  /\ UNCHANGED otherThanOperation

RuleCreateExchanges ==
  {[plan |-> a, legacy |-> b, idErr |-> e, took |-> d] :
     a \in RuleCreateAnswers, b \in OpAnswers, e \in BOOLEAN, d \in CallDurations}

\* Create: createPropagationRuleViaPlan on the configured host.
RuleCreate ==
  /\ operation.pc = "ruleCreate"
  /\ \E x \in RuleCreateExchanges :
       LET res == createPropagationRuleViaPlan(x.plan, x.legacy, x.idErr)
           o1 == Sent(operation, "ruleCreate", operation.requestClient, FALSE, res,
                      managementHTTPClientDo(x.plan, x.took))
           list == pingOneFallbackBaseHostnames(operation.apiClient)
       IN operation' =
            IF fallbackGoesOn(res) /\ list # <<>>
            THEN [o1 EXCEPT !.pc = "ruleCreateAlt", !.cands = list]
            ELSE IF res.err THEN Failed(Returned(o1, res), "Error Creating Propagation Rule")
            ELSE AfterRuleCreate(Returned(o1, res))
  /\ UNCHANGED otherThanOperation

\* Create: one pass of the fallback loop of the rule create.
RuleCreateAlt ==
  /\ operation.pc = "ruleCreateAlt"
  /\ \E x \in RuleCreateExchanges :
       LET hostname == Head(operation.cands)
           res == createPropagationRuleViaPlan(x.plan, x.legacy, x.idErr)
           o1 == Sent(operation, "ruleCreate", hostname, TRUE, res,
                      managementHTTPClientDo(x.plan, x.took))
       IN operation' =
            IF ~res.err
            THEN AfterRuleCreate(Returned([o1 EXCEPT !.requestClient = hostname], res))
            ELSE IF fallbackGoesOn(res) /\ Tail(operation.cands) # <<>>
            THEN [o1 EXCEPT !.cands = Tail(operation.cands)]
            ELSE Failed(Returned(o1, res), "Error Creating Propagation Rule")
  /\ UNCHANGED otherThanOperation

\* ensurePropagationRuleMappings: the listing, on the client it was given.
OpMappingList ==
  /\ operation.pc = "mapList"
  /\ \E x \in OpExchanges, del \in 0..MaxDelta, add \in 0..MaxDelta :
       LET res == listPropagationRuleMappings(x.answer)
           o1 == Returned(Sent(operation, "mapList", operation.ensureClient, FALSE, res, x), res)
       IN /\ res.err => del = 0 /\ add = 0
          /\ ~operation.hasMappings => add = 0
          /\ operation' =
               IF res.err THEN Failed(o1, "Error Reconciling Mappings")
               ELSE EnsureLoop([o1 EXCEPT !.nDelete = del, !.nCreate = add,
                                          !.ensureRequestClient = operation.ensureClient])
  /\ UNCHANGED otherThanOperation

\* deletePropagationMappingWithFallback: the attempt on the given client.
OpMappingDelete ==
  /\ operation.pc = "mapDelete"
  /\ \E x \in OpExchanges :
       LET res == deletePropagationMapping(x.answer)
           o1 == Sent(operation, "mapDelete", operation.ensureClient, FALSE, res, x)
           list == pingOneFallbackBaseHostnames(operation.ensureClient)
       IN operation' =
            IF ~res.err THEN EnsureLoop(Returned([o1 EXCEPT !.nDelete = @ - 1], res))
            ELSE IF fallbackGoesOn(res) /\ list # <<>>
            THEN [o1 EXCEPT !.pc = "mapDeleteAlt", !.cands = list]
            ELSE Failed(Returned(o1, res), "Error Reconciling Mappings")
  /\ UNCHANGED otherThanOperation

\* deletePropagationMappingWithFallback: one pass of its loop.
OpMappingDeleteAlt ==
  /\ operation.pc = "mapDeleteAlt"
  /\ \E x \in OpExchanges :
       LET hostname == Head(operation.cands)
           res == deletePropagationMapping(x.answer)
           o1 == Sent(operation, "mapDelete", hostname, TRUE, res, x)
       IN operation' =
            IF ~res.err THEN EnsureLoop(Returned([o1 EXCEPT !.nDelete = @ - 1], res))
            ELSE IF fallbackGoesOn(res) /\ Tail(operation.cands) # <<>>
            THEN [o1 EXCEPT !.cands = Tail(operation.cands)]
            ELSE Failed(Returned(o1, res), "Error Reconciling Mappings")
  /\ UNCHANGED otherThanOperation

\* ensurePropagationRuleMappings: the POST of one mapping on requestClient.
OpMappingCreate ==
  /\ operation.pc = "mapCreate"
  /\ \E x \in OpExchanges :
       LET res == sdkResult(x.answer)
           o1 == Sent(operation, "mapCreate", operation.ensureRequestClient, FALSE, res, x)
           list == pingOneFallbackBaseHostnames(operation.ensureRequestClient)
       IN operation' =
            IF fallbackGoesOn(res) /\ list # <<>>
            THEN [o1 EXCEPT !.pc = "mapCreateAlt", !.cands = list]
            ELSE IF res.err THEN Failed(Returned(o1, res), "Error Reconciling Mappings")
            ELSE EnsureLoop(Returned([o1 EXCEPT !.nCreate = @ - 1], res))
  /\ UNCHANGED otherThanOperation

\* ensurePropagationRuleMappings: one pass of the fallback loop of the POST.
OpMappingCreateAlt ==
  /\ operation.pc = "mapCreateAlt"
  /\ \E x \in OpExchanges :
       LET hostname == Head(operation.cands)
           res == sdkResult(x.answer)
           o1 == Sent(operation, "mapCreate", hostname, TRUE, res, x)
       IN operation' =
            IF ~res.err
            THEN EnsureLoop(Returned([o1 EXCEPT !.nCreate = @ - 1,
                                                !.ensureRequestClient = hostname], res))
            ELSE IF fallbackGoesOn(res) /\ Tail(operation.cands) # <<>>
            THEN [o1 EXCEPT !.cands = Tail(operation.cands)]
            ELSE Failed(Returned(o1, res), "Error Reconciling Mappings")
  /\ UNCHANGED otherThanOperation

\* The client Create and Update hold after the rule exists.
OperationClient(o) == IF o.kind = "create" THEN o.requestClient ELSE o.apiClient

\* The rule PUT.
RulePut ==
  /\ operation.pc = "rulePut"
  /\ \E x \in OpExchanges :
       LET res == sdkResult(x.answer)
           o1 == Returned(Sent(operation, "rulePut", OperationClient(operation), FALSE, res, x), res)
       IN operation' = IF res.err THEN Failed(o1, "Error Updating Propagation Rule")
                       ELSE AfterPut(o1)
  /\ UNCHANGED otherThanOperation

\* resolvePropagationRuleMappings: the listing.
MappingRead ==
  /\ operation.pc = "mapRead"
  /\ \E x \in OpExchanges :
       LET res == listPropagationRuleMappings(x.answer)
           o1 == Returned(Sent(operation, "mapRead", OperationClient(operation), FALSE, res, x), res)
       IN operation' = IF res.err THEN Failed(o1, "Error Reading Propagation Rule Mappings")
                       ELSE AfterRead(o1)
  /\ UNCHANGED otherThanOperation

\* createPropagationRevisionWithFallback: the attempt on the given client.
\* Its failure is a warning only.
Revision ==
  /\ operation.pc = "revision"
  /\ \E x \in OpExchanges :
       LET res == createPropagationRevision(x.answer)
           o1 == Sent(operation, "revision", OperationClient(operation), FALSE, res, x)
           list == pingOneFallbackBaseHostnames(OperationClient(operation))
       IN operation' =
            IF ~res.err THEN AfterRevision(Returned(o1, res))
            ELSE IF fallbackGoesOn(res) /\ list # <<>>
            THEN [o1 EXCEPT !.pc = "revisionAlt", !.cands = list]
            ELSE AfterRevision([Returned(o1, res) EXCEPT !.diag = "Propagation Revision Not Created"])
  /\ UNCHANGED otherThanOperation

\* createPropagationRevisionWithFallback: one pass of its loop.
RevisionAlt ==
  /\ operation.pc = "revisionAlt"
  /\ \E x \in OpExchanges :
       LET hostname == Head(operation.cands)
           res == createPropagationRevision(x.answer)
           o1 == Sent(operation, "revision", hostname, TRUE, res, x)
       IN operation' =
            IF ~res.err THEN AfterRevision(Returned(o1, res))
            ELSE IF fallbackGoesOn(res) /\ Tail(operation.cands) # <<>>
            THEN [o1 EXCEPT !.cands = Tail(operation.cands)]
            ELSE AfterRevision([Returned(o1, res) EXCEPT !.diag = "Propagation Revision Not Created"])
  /\ UNCHANGED otherThanOperation

OperationNext ==
  \/ Validate
  \/ RuleCreate \/ RuleCreateAlt
  \/ OpMappingList \/ OpMappingDelete \/ OpMappingDeleteAlt
  \/ OpMappingCreate \/ OpMappingCreateAlt
  \/ RulePut \/ MappingRead \/ Revision \/ RevisionAlt

SpecOp == OperationInit /\ [][OperationNext]_vars

\* C11: a 429, 502, 503 or 504 reaches the reconciler as the failure of a
\* removal call only after the retry deadline has passed. (The removal is
\* the call the repository sends itself, through the client's http.Client.)
C11_RetryableOnlyAfterDeadline ==
  (/\ operation.last.step = "mapDelete"
   /\ operation.last.res.err
   /\ operation.last.status \in RetryableSeen)
    => operation.last.elapsed >= t_maxRetryTimeout

\* C13: a fallback attempt is made only after the attempt before it, for
\* the same call, failed wrong-region; the first goes to the head of the
\* candidate list of the configured host and each further one to the next
\* candidate; what the call returns is the result of the last attempt, and
\* it returns a wrong-region failure of a candidate only for the last one.
C13_FallbackOrder ==
  [][ LET prev == operation.last
          new == operation'.last
          list == pingOneFallbackBaseHostnames(prev.first)
      IN /\ new.alt =>
              /\ prev.step = new.step
              /\ prev.res.err /\ shouldTryAlternateHostname(prev.res)
              /\ IF prev.alt
                 THEN \E k \in 1..(Len(list) - 1) : list[k] = prev.host /\ list[k + 1] = new.host
                 ELSE new.host = list[1]
         /\ operation'.returned.step # "none" =>
              /\ operation'.returned.step = new.step
              /\ operation'.returned.res = new.res
         /\ (new.alt /\ new.res.err /\ shouldTryAlternateHostname(new.res)
               /\ operation'.returned.step # "none") =>
              LET all == pingOneFallbackBaseHostnames(new.first)
              IN new.host = all[Len(all)]
    ]_vars

\* The second candidate is tried after the first failed wrong-region, fails
\* for another reason, and the call returns that failure.
C13_Witness ==
  /\ operation.last.alt
  /\ operation.last.first = HostCom
  /\ operation.last.host = HostCa
  /\ operation.last.res.err
  /\ ~shouldTryAlternateHostname(operation.last.res)
  /\ operation.returned.step = operation.last.step
  /\ operation.returned.res = operation.last.res

\* C15: once a call of the operation has succeeded on an alternate host,
\* the first attempt of every later call of the operation goes to that host.
C15_PinnedHostFirst ==
  (/\ operation.altSucceeded # <<>>
   /\ operation.last.step # "none"
   /\ ~operation.last.alt)
    => operation.last.host = operation.altSucceeded

\* A desired mapping with an empty target, or with source and expression.
Malformed(m) ==
  \/ TrimSpace(m.tgt) = <<>>
  \/ TrimSpace(m.src) # <<>> /\ TrimSpace(m.expr) # <<>>

HasMalformed(o) == {i \in 1..Len(o.mappings) : Malformed(o.mappings[i])} # {}

\* C25: a Create or Update whose desired mappings hold one with an empty
\* target, or one with both source and expression, ends with a validation
\* error; no remote call has been made and no state recorded.
C25_ValidationBeforeCalls ==
  (HasMalformed(operation) /\ operation.pc # "validate") =>
    /\ operation.pc = "done"
    /\ operation.diag \in {"Missing Required Argument", "Conflicting Arguments"}
    /\ operation.last.step = "none"
    /\ ~operation.stateSet

\* An Update with a mapping that has source and expression has failed.
C25_Witness ==
  /\ operation.kind = "update"
  /\ Len(operation.mappings) = 1
  /\ TrimSpace(operation.mappings[1].src) # <<>>
  /\ TrimSpace(operation.mappings[1].expr) # <<>>
  /\ operation.pc = "done"
  /\ operation.diag = "Conflicting Arguments"

\* The calls of ensurePropagationRuleMappings.
EnsureSteps == {"mapList", "mapDelete", "mapCreate"}

\* C29: Create sends the rule with active = false; the update that
\* activates it is sent only after the rule was created and, when there are
\* mappings to reconcile, after the reconciliation ended without error;
\* when the creation or the reconciliation fails, no activating update is
\* sent and no state is recorded.
C29_InactiveUntilReconciled ==
  [][ operation'.kind = "create" =>
        /\ operation'.last.step = "ruleCreate" => operation'.last.active = "false"
        /\ operation'.last.active = "true" => operation'.last.step = "rulePut"
        /\ (operation'.last.step = "rulePut" /\ operation.last.step # "rulePut") =>
             /\ ~operation.last.res.err
             /\ operation.returned.step = operation.last.step
             /\ IF operation.manageMappings /\ operation.hasMappings
                THEN /\ operation.last.step \in EnsureSteps
                     /\ operation.nDelete = 0 /\ operation.nCreate = 0
                ELSE operation.last.step = "ruleCreate"
        /\ operation'.diag \in {"Error Creating Propagation Rule", "Error Reconciling Mappings"} =>
             /\ operation'.pc = "done"
             /\ operation'.last.step \in {"ruleCreate"} \cup EnsureSteps
             /\ ~operation'.stateSet ]_vars

\* A Create with mappings has sent the activating update, and it succeeded.
C29_Witness ==
  /\ operation.kind = "create"
  /\ operation.manageMappings /\ operation.hasMappings /\ operation.desiredActive
  /\ operation.last.step = "rulePut"
  /\ operation.last.active = "true"
  /\ ~operation.last.res.err

(***************************************************************************)
(* The id of a rule just created                                           *)
(***************************************************************************)
\* for attempt := 0; attempt < 5; attempt++
pollAttempts == 5

\* time.Sleep(time.Duration(attempt+1) * 300 * time.Millisecond)
pollDelayMs == 300

\* The rules a listing of the plan may return. Every rule the service lists
\* carries an id; two share the natural key and one differs in each field.
RulesSeen ==
  {[id |-> "a", name |-> "n", source |-> "s", target |-> "t"],
   [id |-> "b", name |-> "n", source |-> "s", target |-> "t"],
   [id |-> "c", name |-> "n", source |-> "s2", target |-> "t"],
   [id |-> "d", name |-> "m", source |-> "s", target |-> "t"]}

\* The natural keys asked for: the source store id given, or left empty.
KeysSeen == {[name |-> "n", source |-> src, target |-> "t"] : src \in {"s", ""}}

\* The create response: not decodable, an object with or without an id, or
\* something that is not an object.
ResponsesSeen ==
  {[decodeErr |-> TRUE, isObject |-> FALSE, id |-> ""],
   [decodeErr |-> FALSE, isObject |-> TRUE, id |-> "r1"],
   [decodeErr |-> FALSE, isObject |-> TRUE, id |-> ""],
   [decodeErr |-> FALSE, isObject |-> FALSE, id |-> ""]}

ListError == [failed |-> TRUE, rules |-> <<>>]

Listing(rules) == [failed |-> FALSE, rules |-> rules]

ListingsSeen == {ListError} \cup {Listing(SetToSeq(S)) : S \in SUBSET RulesSeen}

\* The response carries the id: decoded, an object, "id" not empty.
idFromResponse_ignored(response) == FALSE

idFromResponse(response) == response.isObject /\ response.id # ""

\* The loop over the listed rules that collects the ids of the matches.
RECURSIVE matchLoop(_, _, _)
matchLoop(rules, given, matches) ==
  IF rules = <<>> THEN matches
  ELSE LET rule == Head(rules)
       IN IF rule.name # given.name THEN matchLoop(Tail(rules), given, matches)
          ELSE IF given.source # "" /\ rule.source # given.source
          THEN matchLoop(Tail(rules), given, matches)
          ELSE IF given.target # "" /\ rule.target # given.target
          THEN matchLoop(Tail(rules), given, matches)
          ELSE IF rule.id # "" THEN matchLoop(Tail(rules), given, Append(matches, rule.id))
          ELSE matchLoop(Tail(rules), given, matches)

Ambiguous(n, given) == [kind |-> "ambiguous", count |-> n, key |-> given]

NotLocated(given, lastErr) == [kind |-> "notLocated", key |-> given, lastErr |-> lastErr]

Found(id) == [kind |-> "id", id |-> id]

\* What one poll decides.
pollOutcome_picksFirst(listing, given) ==
  IF listing.failed THEN [kind |-> "again", lastErr |-> "list"]
  ELSE LET matches == matchLoop(listing.rules, given, <<>>)
       IN IF Len(matches) >= 1 THEN Found(matches[1])
          ELSE [kind |-> "again", lastErr |-> "rule not found yet"]

pollOutcome(listing, given) ==
  IF listing.failed THEN [kind |-> "again", lastErr |-> "list"]
  ELSE LET matches == matchLoop(listing.rules, given, <<>>)
       IN IF Len(matches) = 1 THEN Found(matches[1])
          ELSE IF Len(matches) > 1 THEN Ambiguous(Len(matches), given)
          ELSE [kind |-> "again", lastErr |-> "rule not found yet"]

\* attempt < 5
morePolls_six(attempt) == attempt < pollAttempts + 1

morePolls(attempt) == attempt < pollAttempts

\* time.Sleep: the goroutine is back after the whole duration, whatever
\* happens to the context meanwhile.
timeSleep(r, ms) == [r EXCEPT !.now = @ + ms]

ResolverInit ==
  /\ \E given \in KeysSeen, response \in ResponsesSeen :
       resolver = [given |-> given, response |-> response, pc |-> "decode",
                   attempt |-> 0, polls |-> 0, listed |-> ListError, lastErr |-> "none",
                   now |-> 0, ctxDone |-> FALSE, cancelledIn |-> "none", cancelledAt |-> -1,
                   out |-> [kind |-> "none"]]
  /\ DiffIdle /\ RecIdle /\ RetryIdle /\ RegionIdle /\ OperationIdle /\ HelperIdle

\* propagationRuleIDFromCreateResponse up to its loop.
ResolverDecode ==
  /\ resolver.pc = "decode"
  /\ resolver' =
       IF resolver.response.decodeErr
       THEN [resolver EXCEPT !.pc = "done", !.out = [kind |-> "decode"]]
       ELSE IF idFromResponse(resolver.response)
       THEN [resolver EXCEPT !.pc = "done", !.out = Found(resolver.response.id)]
       ELSE [resolver EXCEPT !.pc = "poll"]
  /\ UNCHANGED otherThanResolver

\* One listPropagationRulesForPlan and what the loop body makes of it. A
\* request under a cancelled context fails.
ResolverPoll ==
  /\ resolver.pc = "poll"
  /\ \E listing \in ListingsSeen :
       /\ resolver.ctxDone => listing = ListError
       /\ LET outcome == pollOutcome(listing, resolver.given)
              r1 == [resolver EXCEPT !.polls = @ + 1, !.listed = listing]
          IN resolver' =
               IF outcome.kind = "again"
               THEN [r1 EXCEPT !.pc = "sleep", !.lastErr = outcome.lastErr]
               ELSE [r1 EXCEPT !.pc = "done", !.out = outcome]
  /\ UNCHANGED otherThanResolver

\* The delay at the end of the loop body, attempt++, and the loop test.
ResolverSleep ==
  /\ resolver.pc = "sleep"
  /\ LET r1 == timeSleep(resolver, (resolver.attempt + 1) * pollDelayMs)
         r2 == [r1 EXCEPT !.attempt = @ + 1]
     IN resolver' =
          IF morePolls(r2.attempt) THEN [r2 EXCEPT !.pc = "poll"]
          ELSE [r2 EXCEPT !.pc = "done", !.out = NotLocated(resolver.given, resolver.lastErr)]
  /\ UNCHANGED otherThanResolver

\* The caller's context is cancelled.
ResolverCancel ==
  /\ resolver.pc # "done"
  /\ ~resolver.ctxDone
  /\ resolver' = [resolver EXCEPT !.ctxDone = TRUE, !.cancelledIn = resolver.pc,
                                   !.cancelledAt = resolver.now]
  /\ UNCHANGED otherThanResolver

ResolverNext == ResolverDecode \/ ResolverPoll \/ ResolverSleep \/ ResolverCancel

SpecResolve == ResolverInit /\ [][ResolverNext]_vars

\* The rules of the last listing that match the natural key: the name, and
\* the source and target ids where they are given.
MatchesListed ==
  {i \in 1..Len(resolver.listed.rules) :
     LET rule == resolver.listed.rules[i]
     IN /\ rule.name = resolver.given.name
        /\ resolver.given.source # "" => rule.source = resolver.given.source
        /\ resolver.given.target # "" => rule.target = resolver.given.target}

Polled == resolver.polls > 0 /\ ~resolver.listed.failed

Resolved == resolver.pc = "done"

\* C17: the resolver lists at most 5 times; a poll that finds exactly one
\* match ends it with that rule's id; after a poll that finds none it is
\* not over before the fifth poll, and after the fifth it ends with an
\* error that names the natural key.
C17_BoundedPolling ==
  /\ resolver.polls <= 5
  /\ (Polled /\ Cardinality(MatchesListed) = 1) =>
        /\ Resolved
        /\ resolver.out = Found(resolver.listed.rules[CHOOSE i \in MatchesListed : TRUE].id)
  /\ (Polled /\ MatchesListed = {} /\ Resolved) =>
        /\ resolver.polls = 5
        /\ resolver.out.kind = "notLocated"
        /\ resolver.out.key = resolver.given
  /\ (Polled /\ MatchesListed = {} /\ resolver.polls < 5) => ~Resolved

\* Five polls, the fifth finding none too: the error names the key.
C17_Witness ==
  /\ Resolved
  /\ resolver.polls = 5
  /\ Polled /\ MatchesListed = {}
  /\ resolver.out.kind = "notLocated"
  /\ resolver.out.key = resolver.given

\* C18: a poll that finds more than one match ends the resolver at once
\* with an error that states how many; no id is returned.
C18_AmbiguousFailsAtOnce ==
  (Polled /\ Cardinality(MatchesListed) > 1) =>
     /\ Resolved
     /\ resolver.out.kind = "ambiguous"
     /\ resolver.out.count = Cardinality(MatchesListed)
     /\ resolver.attempt = resolver.polls - 1

C18_Witness ==
  /\ Polled /\ Cardinality(MatchesListed) = 2
  /\ resolver.polls = 2
  /\ Resolved
  /\ resolver.out.kind = "ambiguous"
  /\ resolver.out.count = 2

\* C19: a create response that decodes to an object with a non-empty id
\* ends the resolver with that id, and nothing is listed.
C19_IdFromResponse ==
  (/\ ~resolver.response.decodeErr
   /\ resolver.response.isObject
   /\ resolver.response.id # ""
   /\ resolver.pc # "decode") =>
     /\ Resolved
     /\ resolver.out = Found(resolver.response.id)
     /\ resolver.polls = 0

C19_Witness ==
  /\ Resolved
  /\ resolver.response.id = "r1"
  /\ resolver.out = Found("r1")
  /\ resolver.polls = 0

\* C20: when the context is cancelled during the delay between two polls,
\* the next thing the resolver does is return a cancellation error, at the
\* time of the cancellation, without another poll.
C20_CancelEndsDelay ==
  [][ (resolver.pc = "sleep" /\ resolver.cancelledIn = "sleep") =>
         /\ resolver'.pc = "done"
         /\ resolver'.out.kind = "cancelled"
         /\ resolver'.now = resolver.cancelledAt
         /\ resolver'.polls = resolver.polls
    ]_vars

(***************************************************************************)
(* Helper functions of the resources applied to arbitrary inputs           *)
(***************************************************************************)
\* The spellings of the fields of a mapping in the model: the sources "",
\* "a", " a", "a->b", the targets "", "t", "b->t", the expressions "", "e".
SourcesSeen == {<<>>, Str_a, Str_sp_a, Str_a \o Arrow \o Str_b}

TargetsSeen == {<<>>, Str_t, Str_b \o Arrow \o Str_t}

ExpressionsSeen == {<<>>, Str_e}

MappingsSeen == {Mapping(s, t, e) : s \in SourcesSeen, t \in TargetsSeen, e \in ExpressionsSeen}

\* The answers to a DELETE in the model.
DeleteAnswers == {Status(200), Status(204), Status(404), Status(500), BadAuth403, NetError}

\* githubEnterpriseTeamMemberResource.Delete after client.Do: the error it
\* adds to the diagnostics, "" for none.
githubEnterpriseTeamMemberDelete(r) ==
  IF r.net THEN "Error Removing Enterprise Team Member"
  ELSE IF r.status # 204 /\ r.status >= 300 THEN "Error Removing Enterprise Team Member"
  ELSE ""

\* githubEnterpriseTeamOrganizationResource.Delete after client.Do.
githubEnterpriseTeamOrganizationDelete(r) ==
  IF r.net THEN "Error Removing Enterprise Team Organization"
  ELSE IF r.status # 204 /\ r.status >= 300 THEN "Error Removing Enterprise Team Organization"
  ELSE ""

\* types.StringNull(), and ValueString() of a value of the plan or state.
StringNull == <<0>>

ValueString(v) == IF v = StringNull THEN <<>> ELSE v

\* The PropagationRuleMappingModel resolvePropagationRuleMappings builds
\* from a listed mapping: blank source and expression become null.
mappingModel(m) ==
  [id   |-> m.id,
   src  |-> IF TrimSpace(m.src) # <<>> THEN m.src ELSE StringNull,
   tgt  |-> m.tgt,
   expr |-> IF TrimSpace(m.expr) # <<>> THEN m.expr ELSE StringNull]

\* A mapping of the caller's list: no id known, null where nothing is set.
PlanModel(m) ==
  [id   |-> 0,
   src  |-> IF m.src = <<>> THEN StringNull ELSE m.src,
   tgt  |-> m.tgt,
   expr |-> IF m.expr = <<>> THEN StringNull ELSE m.expr]

modelKey(m) == mappingKey(ValueString(m.src), ValueString(m.tgt), ValueString(m.expr))

\* The loop over preferredOrder: the listed mapping of the key when there
\* is one, the caller's own mapping otherwise; an empty key is skipped.
RECURSIVE preferredLoop_dropsUnlisted(_, _)
preferredLoop_dropsUnlisted(preferredOrder, byKey) ==
  IF preferredOrder = <<>> THEN <<>>
  ELSE LET preferred == Head(preferredOrder)
           key == modelKey(preferred)
       IN (IF key = <<>> \/ key \notin DOMAIN byKey THEN <<>> ELSE <<mappingModel(byKey[key])>>)
          \o preferredLoop_dropsUnlisted(Tail(preferredOrder), byKey)

RECURSIVE preferredLoop(_, _)
preferredLoop(preferredOrder, byKey) ==
  IF preferredOrder = <<>> THEN <<>>
  ELSE LET preferred == Head(preferredOrder)
           key == modelKey(preferred)
       IN (IF key = <<>> THEN <<>>
           ELSE IF key \in DOMAIN byKey THEN <<mappingModel(byKey[key])>>
           ELSE <<preferred>>)
          \o preferredLoop(Tail(preferredOrder), byKey)

\* resolvePropagationRuleMappings after the listing succeeded.
resolvePropagationRuleMappings(existing, preferredOrder) ==
  LET byKey == keyedMap(existing)
      seen == {modelKey(preferredOrder[i]) : i \in 1..Len(preferredOrder)} \ {<<>>}
      remainingKeys == SortStrings(SetToSeq(DOMAIN byKey \ seen))
  IN preferredLoop(preferredOrder, byKey)
     \o [i \in 1..Len(remainingKeys) |-> mappingModel(byKey[remainingKeys[i]])]

\* The listings and the caller's lists in the model.
ListedSeen == {WithIds(ms) : ms \in SeqsUpTo(AllMappings, MaxResolve)}

PreferredSeen == {[i \in 1..Len(ms) |-> PlanModel(ms[i])] : ms \in SeqsUpTo(AllMappings, MaxResolve)}

\* A response body is a stream: its bytes, how many of them have been read,
\* and the offset at which a read fails (-1: none does).
NilResponse == [nil |-> TRUE]

NilBody == [nil |-> TRUE]

Stream(data, pos, failAt) == [nil |-> FALSE, data |-> data, pos |-> pos, failAt |-> failAt]

Response(body) == [nil |-> FALSE, body |-> body]

\* io.ReadAll: what is left of the stream, or what comes before the failure
\* and the error.
ioReadAll(body) ==
  LET failed == body.failAt >= body.pos
      upto == IF failed THEN body.failAt ELSE Len(body.data)
  IN [bytes |-> SubSeq(body.data, body.pos + 1, upto), err |-> failed,
      body |-> [body EXCEPT !.pos = upto]]

\* resp.Body = io.NopCloser(bytes.NewBuffer(bodyBytes))
restoreBody_consumed(bodyBytes) == Stream(bodyBytes, Len(bodyBytes), -1)

restoreBody(bodyBytes) == Stream(bodyBytes, 0, -1)

\* HandleSDKError(err, resp): whether the body was read, the bytes that went
\* into the message, and the response afterwards. A response without body
\* makes io.ReadAll panic.
HandleSDKError(resp) ==
  IF resp.nil THEN [read |-> FALSE, panic |-> FALSE, bytes |-> <<>>, resp |-> resp]
  ELSE IF resp.body.nil THEN [read |-> FALSE, panic |-> TRUE, bytes |-> <<>>, resp |-> resp]
  ELSE LET r == ioReadAll(resp.body)
       IN IF r.err THEN [read |-> FALSE, panic |-> FALSE, bytes |-> <<>>, resp |-> Response(r.body)]
          ELSE [read |-> TRUE, panic |-> FALSE, bytes |-> r.bytes,
                resp |-> Response(restoreBody(r.bytes))]

\* ReadAndRestoreResponseBody(resp)
ReadAndRestoreResponseBody(resp) ==
  IF resp.nil THEN [read |-> FALSE, panic |-> FALSE, bytes |-> <<>>, resp |-> resp]
  ELSE IF resp.body.nil THEN [read |-> FALSE, panic |-> FALSE, bytes |-> <<>>, resp |-> resp]
  ELSE LET r == ioReadAll(resp.body)
       IN IF r.err THEN [read |-> FALSE, panic |-> FALSE, bytes |-> <<>>, resp |-> Response(r.body)]
          ELSE [read |-> TRUE, panic |-> FALSE, bytes |-> r.bytes,
                resp |-> Response(restoreBody(r.bytes))]

\* The bodies in the model: "", "a", "ab", read up to any offset, failing at
\* any offset or nowhere.
BodyBytesSeen == {<<>>, <<97>>, <<97, 98>>}

ResponsesRead ==
  {NilResponse, Response(NilBody)} \cup
  {Response(Stream(d, p, f)) : d \in BodyBytesSeen, p \in 0..2, f \in -1..2}

\* A request handed to a retry loop: the bytes of its body, the stream
\* req.Body over them (NilBody for a request without body) and whether
\* req.GetBody is set.
Request(payload, hasGetBody) ==
  [method |-> "POST", url |-> "/rules", payload |-> payload,
   body |-> IF payload = <<>> THEN NilBody ELSE Stream(payload, 0, -1),
   hasGetBody |-> hasGetBody]

\* What the base transport sends for a request whose body is this stream,
\* and the stream afterwards: the transport reads the body to its end.
transportSend(body) ==
  IF body.nil THEN [bytes |-> <<>>, body |-> body]
  ELSE [bytes |-> ioReadAll(body).bytes, body |-> ioReadAll(body).body]

\* retryTransport.RoundTrip up to t.rt.RoundTrip(reqCopy): req.Clone shares
\* req.Body; the copy gets a new body only from req.GetBody.
t_attempt(req) ==
  IF ~req.body.nil /\ req.hasGetBody
  THEN [bytes |-> transportSend(Stream(req.payload, 0, -1)).bytes, req |-> req]
  ELSE [bytes |-> transportSend(req.body).bytes,
        req |-> [req EXCEPT !.body = transportSend(req.body).body]]

\* retryRoundTripper.RoundTrip up to r.base.RoundTrip(req): the request
\* itself, every time.
r_attempt(req) ==
  [bytes |-> transportSend(req.body).bytes,
   req |-> [req EXCEPT !.body = transportSend(req.body).body]]

\* GitHubClient.Do up to c.HTTPClient.Do(req): a new request over
\* bytes.NewReader(bodyBytes).
Do_attempt(req) ==
  [bytes |-> transportSend(Stream(req.payload, 0, -1)).bytes, req |-> req]

attemptOf(l, req) ==
  CASE l = "retryTransport" -> t_attempt(req)
    [] l = "retryRoundTripper" -> r_attempt(req)
    [] OTHER -> Do_attempt(req)

retriesOn(l, status) ==
  CASE l = "retryTransport" -> t_shouldRetry(status)
    [] l = "retryRoundTripper" -> r_shouldRetry(status)
    [] OTHER -> shouldRetryStatus(status)

RequestsSeen == {Request(d, g) : d \in BodyBytesSeen, g \in BOOLEAN}

HelperInit ==
  /\ \/ \E m1 \in MappingsSeen, m2 \in MappingsSeen :
          helper = [fn |-> "mappingKey", arg |-> <<m1, m2>>, out |-> NoOutput]
     \/ \E what \in {"mapping", "member", "organization"}, r \in DeleteAnswers :
          helper = [fn |-> "delete", arg |-> [resource |-> what, answer |-> r], out |-> NoOutput]
     \/ \E listing \in ListedSeen, preferredOrder \in PreferredSeen :
          helper = [fn |-> "resolve",
                    arg |-> [existing |-> listing, preferredOrder |-> preferredOrder],
                    out |-> NoOutput]
     \/ \E r \in {x \in ResponsesRead : ~x.nil /\ ~x.body.nil =>
                                           x.body.pos <= Len(x.body.data) /\ x.body.failAt <= Len(x.body.data)} :
          helper = [fn |-> "body", arg |-> r, resp |-> r, reads |-> <<>>, panic |-> FALSE]
     \/ \E l \in LoopNames, req \in RequestsSeen :
          helper = [fn |-> "attempts", arg |-> [loop |-> l, req |-> req], req |-> req,
                    sent |-> <<>>, pc |-> "send"]
  /\ DiffIdle /\ RecIdle /\ RetryIdle /\ RegionIdle /\ OperationIdle /\ ResolverIdle

\* mappingKey on a desired mapping and on a remote one, and the delta of
\* ensurePropagationRuleMappings for the two.
KeyPair ==
  /\ helper.fn = "mappingKey" /\ ~helper.out.set
  /\ LET m1 == helper.arg[1]
         m2 == helper.arg[2]
         d == mappingDelta(<<m1>>, WithIds(<<m2>>))
     IN helper' = [helper EXCEPT !.out =
                     [set |-> TRUE,
                      desiredKey |-> mappingKey(m1.src, m1.tgt, m1.expr),
                      remoteKey |-> mappingKeyFromAPI(m2),
                      toAdd |-> d.toAdd, toRemove |-> d.toRemove]]
  /\ UNCHANGED otherThanHelper

\* The delete call of a mapping, of a team member, of a team organization,
\* and whether its caller got an error.
DeleteItem ==
  /\ helper.fn = "delete" /\ ~helper.out.set
  /\ LET r == helper.arg.answer
         failed == CASE helper.arg.resource = "mapping" -> deletePropagationMapping(r).err
                     [] helper.arg.resource = "member" -> githubEnterpriseTeamMemberDelete(r) # ""
                     [] helper.arg.resource = "organization" -> githubEnterpriseTeamOrganizationDelete(r) # ""
     IN helper' = [helper EXCEPT !.out = [set |-> TRUE, err |-> failed]]
  /\ UNCHANGED otherThanHelper

\* resolvePropagationRuleMappings on a listing and the caller's list.
ResolveMappings ==
  /\ helper.fn = "resolve" /\ ~helper.out.set
  /\ helper' = [helper EXCEPT !.out =
                  [set |-> TRUE,
                   resolved |-> resolvePropagationRuleMappings(helper.arg.existing,
                                                               helper.arg.preferredOrder)]]
  /\ UNCHANGED otherThanHelper

\* One more helper applied to the response.
Applied(got, name) ==
  helper' = [helper EXCEPT !.resp = got.resp,
                           !.panic = got.panic,
                           !.reads = Append(@, [fn |-> name, read |-> got.read, bytes |-> got.bytes])]

ApplyHandleSDKError ==
  /\ helper.fn = "body" /\ ~helper.panic /\ Len(helper.reads) < MaxReads
  /\ Applied(HandleSDKError(helper.resp), "HandleSDKError")
  /\ UNCHANGED otherThanHelper

ApplyReadAndRestoreResponseBody ==
  /\ helper.fn = "body" /\ ~helper.panic /\ Len(helper.reads) < MaxReads
  /\ Applied(ReadAndRestoreResponseBody(helper.resp), "ReadAndRestoreResponseBody")
  /\ UNCHANGED otherThanHelper

\* One attempt of a retry loop, the clock standing still: the request goes
\* out, and the loop goes round again when the answer is one it retries.
SendAttempt ==
  /\ helper.fn = "attempts" /\ helper.pc = "send" /\ Len(helper.sent) < MaxSends
  /\ \E status \in {200, 429, 503} :
       LET a == attemptOf(helper.arg.loop, helper.req)
       IN helper' = [helper EXCEPT
                       !.req = a.req,
                       !.sent = Append(@, [method |-> a.req.method, url |-> a.req.url,
                                           body |-> a.bytes, status |-> status]),
                       !.pc = IF retriesOn(helper.arg.loop, status) THEN "send" ELSE "done"]
  /\ UNCHANGED otherThanHelper

HelperNext ==
  \/ KeyPair
  \/ DeleteItem
  \/ ResolveMappings
  \/ ApplyHandleSDKError
  \/ ApplyReadAndRestoreResponseBody
  \/ SendAttempt

SpecHelper == HelperInit /\ [][HelperNext]_vars

Keyed2 == helper # <<>> /\ helper.fn = "mappingKey" /\ helper.out.set

\* The mode of a mapping: which of source and expression it carries.
ModeOf(m) ==
  IF TrimSpace(m.src) # <<>> /\ TrimSpace(m.expr) # <<>> THEN "source plus expression"
  ELSE IF TrimSpace(m.src) # <<>> THEN "source only"
  ELSE IF TrimSpace(m.expr) # <<>> THEN "expression only"
  ELSE "none"

SameTrimmedFields(m1, m2) ==
  /\ TrimSpace(m1.src) = TrimSpace(m2.src)
  /\ TrimSpace(m1.tgt) = TrimSpace(m2.tgt)
  /\ TrimSpace(m1.expr) = TrimSpace(m2.expr)

\* C24: two mappings with keys get the same key iff they have the same mode
\* and the same trimmed source, target and expression; with different keys
\* the remote mapping is removed and the desired one added.
C24_KeyIsIdentity ==
  (Keyed2 /\ helper.out.desiredKey # <<>> /\ helper.out.remoteKey # <<>>) =>
    LET m1 == helper.arg[1]
        m2 == helper.arg[2]
    IN /\ (helper.out.desiredKey = helper.out.remoteKey) <=>
            (ModeOf(m1) = ModeOf(m2) /\ SameTrimmedFields(m1, m2))
       /\ ModeOf(m1) # ModeOf(m2) =>
            /\ helper.out.toRemove = {helper.out.remoteKey}
            /\ helper.out.toAdd = {helper.out.desiredKey}

Deleted == helper # <<>> /\ helper.fn = "delete" /\ helper.out.set

\* C26: a delete answered with status 404 is a success, not an error, for
\* a mapping, a team member and a team organization.
C26_NotFoundIsSuccess ==
  (Deleted /\ ~helper.arg.answer.net /\ helper.arg.answer.status = 404) => ~helper.out.err

ResolvedList == helper # <<>> /\ helper.fn = "resolve" /\ helper.out.set

\* The caller's mappings with a usable key, in the caller's order.
KeyedPreferred == SelectSeq(helper.arg.preferredOrder, LAMBDA m : modelKey(m) # <<>>)

ListedKeys == {mappingKeyFromAPI(helper.arg.existing[i]) : i \in 1..Len(helper.arg.existing)} \ {<<>>}

PreferredKeys == {modelKey(KeyedPreferred[i]) : i \in 1..Len(KeyedPreferred)}

\* The mapping the result holds for a listed key: the last listed one.
ListedAs(k) ==
  LET last == CHOOSE i \in 1..Len(helper.arg.existing) :
                /\ mappingKeyFromAPI(helper.arg.existing[i]) = k
                /\ \A j \in 1..Len(helper.arg.existing) :
                     mappingKeyFromAPI(helper.arg.existing[j]) = k => j <= i
  IN mappingModel(helper.arg.existing[last])

\* C27 as amended: the list begins with one entry for each of the caller's
\* mappings that has a usable key, in the caller's order: the listed
\* mapping of that key, or the caller's own mapping when no listed mapping
\* has the key; then come the listed mappings of the keys the caller does
\* not have, one for each key, in ascending order of the key.
C27_ResolvedList ==
  ResolvedList =>
    LET resolved == helper.out.resolved
        np == Len(KeyedPreferred)
    IN /\ Len(resolved) = np + Cardinality(ListedKeys \ PreferredKeys)
       /\ \A j \in 1..np :
            resolved[j] = IF modelKey(KeyedPreferred[j]) \in ListedKeys
                          THEN ListedAs(modelKey(KeyedPreferred[j]))
                          ELSE KeyedPreferred[j]
       /\ \A j \in (np + 1)..Len(resolved) :
            /\ modelKey(resolved[j]) \in ListedKeys \ PreferredKeys
            /\ resolved[j] = ListedAs(modelKey(resolved[j]))
            /\ j < Len(resolved) => StrLess(modelKey(resolved[j]), modelKey(resolved[j + 1]))

\* C27 as stated: the list holds the listed mappings with a usable key and
\* nothing else, one entry for each key.
C27_ExactlyTheListed ==
  ResolvedList =>
    LET resolved == helper.out.resolved
    IN /\ {modelKey(resolved[j]) : j \in 1..Len(resolved)} = ListedKeys
       /\ \A j \in 1..Len(resolved) : resolved[j] = ListedAs(modelKey(resolved[j]))
       /\ \A i, j \in 1..Len(resolved) : modelKey(resolved[i]) = modelKey(resolved[j]) => i = j

\* The caller has a mapping that was not listed and one that was; a third
\* mapping was listed only.
C27_Witness ==
  /\ ResolvedList
  /\ Len(helper.out.resolved) = 3
  /\ helper.out.resolved[1].id = 0
  /\ helper.out.resolved[2].id # 0
  /\ helper.out.resolved[3].id # 0

BodyRead == helper # <<>> /\ helper.fn = "body" /\ helper.reads # <<>>

\* C28: once a helper has read the body of a response, reading the body
\* again yields the bytes that helper read, and so does every later
\* application of a helper.
C28_BodyReadableAgain ==
  BodyRead =>
    /\ helper.reads[Len(helper.reads)].read =>
         /\ ~helper.resp.nil /\ ~helper.resp.body.nil
         /\ ~ioReadAll(helper.resp.body).err
         /\ ioReadAll(helper.resp.body).bytes = helper.reads[Len(helper.reads)].bytes
    /\ \A i \in 1..Len(helper.reads) : \A j \in i..Len(helper.reads) :
         helper.reads[i].read =>
           /\ helper.reads[j].read
           /\ helper.reads[j].bytes = helper.reads[i].bytes

\* Three applications in a row on a body of which one byte was read before.
C28_Witness ==
  /\ BodyRead
  /\ helper.arg = Response(Stream(<<97, 98>>, 1, -1))
  /\ Len(helper.reads) = 3
  /\ helper.reads[1].fn = "HandleSDKError"
  /\ helper.reads[2].fn = "ReadAndRestoreResponseBody"
  /\ helper.reads[3].read
  /\ helper.reads[3].bytes = <<98>>

Attempted == helper # <<>> /\ helper.fn = "attempts" /\ helper.sent # <<>>

\* C30: every attempt of a retry loop sends the method, the URL and the
\* body of the first attempt.
C30_SameRequestEveryAttempt ==
  Attempted =>
    \A i \in 1..Len(helper.sent) :
      /\ helper.sent[i].method = helper.sent[1].method
      /\ helper.sent[i].url = helper.sent[1].url
      /\ helper.sent[i].body = helper.sent[1].body
      /\ helper.sent[i].body = helper.arg.req.payload

====
